---- MODULE Spec2Model ----
(***************************************************************************)
(* A model of the command-dispatch core of laitos: the fixed-window rate   *)
(* limiter (misc.RateLimit), the command processor                         *)
(* (common.CommandProcessor) with the toolbox pieces it calls, the sanity  *)
(* check of its configuration, and the daemons that serve it: their        *)
(* Initialise, StartAndBlock and Stop, and a conversation over TCP.        *)
(***************************************************************************)
EXTENDS Integers, Sequences, FiniteSets, TLC

(***************************************************************************)
(* Bounds of the model.                                                    *)
(***************************************************************************)
\* Largest UnitSecs a rate limiter is configured with.
MaxUnitSecs == 3
\* Largest MaxCount a rate limiter is configured with.
MaxMaxCount == 2
\* Seconds the clock advances beyond its first reading.
Horizon == 4
\* Seconds the clock advances while several threads call Add.
ThreadHorizon == 3

(***************************************************************************)
(* Rate limiter: misc.RateLimit                                            *)
(***************************************************************************)
Actors == {"alice", "bob"}
Threads == {"t1", "t2"}

\* time.Now().Unix() is far larger than any configured UnitSecs, so the first
\* reading of the clock is at least MaxUnitSecs past the zero lastTimestamp.
ClockStart == MaxUnitSecs
MaxTime == ClockStart + Horizon

VARIABLES
    UnitSecs,       \* RateLimit.UnitSecs
    MaxCount,       \* RateLimit.MaxCount
    lastTimestamp,  \* RateLimit.lastTimestamp
    counter,        \* RateLimit.counter: a map, a function on the actors present
    logged,         \* RateLimit.logged: a map used as a set
    counterMutex,   \* RateLimit.counterMutex: "free" or the holding thread
    clock,          \* time.Now().Unix()
    thr,            \* each thread's position in Add and its locals
    rlRet,          \* the last Add's arguments and return: [actor, log, ret, reset, before]
    warnings,       \* Logger.Warningf lines of the current window, per actor
    admitted,       \* history: Add calls that returned true since the last reset, per actor
    admitLog        \* history: Add calls that returned true in each of the last UnitSecs
                    \* seconds, per actor; position 1 is the current second

rlVars == <<UnitSecs, MaxCount, lastTimestamp, counter, logged, counterMutex, clock,
            thr, rlRet, warnings, admitted, admitLog>>

EmptyMap == [a \in {} |-> 0]
ZeroPerActor == [a \in Actors |-> 0]
\* No Add has returned yet.
NoReturn == [actor |-> "none", log |-> FALSE, ret |-> FALSE, reset |-> FALSE, before |-> 0]
IdleThread == [pc |-> "idle", actor |-> "none", log |-> FALSE, now |-> 0,
               count |-> 0, exists |-> FALSE]

\* RateLimit.Initialise rejects UnitSecs < 1 or MaxCount < 1.
InitialiseOK(unit, max) == ~(unit < 1 \/ max < 1)

\* Put(m, k, v): the Go statement m[k] = v.
Put(m, k, v) == [x \in DOMAIN m \cup {k} |-> IF x = k THEN v ELSE m[x]]

\* The window test of Add.
ShouldResetNever(now, last, unit) == FALSE
ShouldResetEverySecond(now, last, unit) == now - last >= 1
ShouldReset(now, last, unit) == now - last >= unit

\* The limit test of Add, on the count found in the map.
LimitHitOffByOne(count, max) == count > max
LimitHit(count, max) == count >= max

\* The state of the limiter after the reset part of Add.
AfterWindowCheck(now) ==
    IF ShouldReset(now, lastTimestamp, UnitSecs)
    THEN [counter |-> EmptyMap, logged |-> {}, lastTimestamp |-> now, reset |-> TRUE]
    ELSE [counter |-> counter, logged |-> logged, lastTimestamp |-> lastTimestamp,
          reset |-> FALSE]

\* Whether the refusal is logged.
ShouldLogEveryRefusal(lg, actor, logIfLimitHit) == logIfLimitHit
ShouldLog(lg, actor, logIfLimitHit) == actor \notin lg /\ logIfLimitHit

\* Add(actor, logIfLimitHit), the whole call under the mutex.
Add(actor, logIfLimitHit) ==
    /\ counterMutex = "free"
    /\ LET w == AfterWindowCheck(clock)
           exists == actor \in DOMAIN w.counter
           count == IF exists THEN w.counter[actor] ELSE 0
           refused == exists /\ LimitHit(count, MaxCount)
           logs == refused /\ ShouldLog(w.logged, actor, logIfLimitHit)
           hist == IF w.reset THEN ZeroPerActor ELSE admitted
           warn == IF w.reset THEN ZeroPerActor ELSE warnings
       IN /\ lastTimestamp' = w.lastTimestamp
          /\ counter' = IF refused THEN w.counter ELSE Put(w.counter, actor, count + 1)
          /\ logged' = IF logs THEN w.logged \cup {actor} ELSE w.logged
          /\ warnings' = IF logs THEN [warn EXCEPT ![actor] = @ + 1] ELSE warn
          /\ rlRet' = [actor |-> actor, log |-> logIfLimitHit, ret |-> ~refused,
                       reset |-> w.reset, before |-> hist[actor]]
          /\ admitted' = IF refused THEN hist ELSE [hist EXCEPT ![actor] = @ + 1]
          /\ admitLog' = IF refused THEN admitLog
                         ELSE [admitLog EXCEPT ![actor][1] = @ + 1]
    /\ UNCHANGED <<UnitSecs, MaxCount, counterMutex, clock, thr>>

\* A second passes.
Tick ==
    /\ clock < MaxTime
    /\ clock' = clock + 1
    /\ admitLog' = [a \in Actors |-> <<0>> \o SubSeq(admitLog[a], 1, UnitSecs - 1)]
    /\ UNCHANGED <<UnitSecs, MaxCount, lastTimestamp, counter, logged, counterMutex,
                   thr, rlRet, warnings, admitted>>

(***************************************************************************)
(* Add statement by statement, called by several threads.                  *)
(***************************************************************************)
\* sync.Mutex.Lock returns only when no thread holds the mutex.
MutexAlwaysAvailable(m) == TRUE
MutexAvailable(m) == m = "free"

InAdd(t) == thr[t].pc \notin {"idle", "lock"}

\* A thread calls Add and waits for the mutex.
Call(t, actor, logIfLimitHit) ==
    /\ thr[t].pc = "idle"
    /\ thr' = [thr EXCEPT ![t] = [IdleThread EXCEPT !.pc = "lock", !.actor = actor,
                                                    !.log = logIfLimitHit]]
    /\ UNCHANGED <<UnitSecs, MaxCount, lastTimestamp, counter, logged, counterMutex,
                   clock, rlRet, warnings, admitted, admitLog>>

\* limit.counterMutex.Lock()
Lock(t) ==
    /\ thr[t].pc = "lock"
    /\ MutexAvailable(counterMutex)
    /\ counterMutex' = t
    /\ thr' = [thr EXCEPT ![t].pc = "check"]
    /\ UNCHANGED <<UnitSecs, MaxCount, lastTimestamp, counter, logged, clock, rlRet,
                   warnings, admitted, admitLog>>

\* now := time.Now().Unix(); now-limit.lastTimestamp >= limit.UnitSecs
CheckWindow(t) ==
    /\ thr[t].pc = "check"
    /\ thr' = [thr EXCEPT ![t].now = clock,
                          ![t].pc = IF ShouldReset(clock, lastTimestamp, UnitSecs)
                                    THEN "resetCounter" ELSE "lookup"]
    /\ UNCHANGED <<UnitSecs, MaxCount, lastTimestamp, counter, logged, counterMutex,
                   clock, rlRet, warnings, admitted, admitLog>>

\* limit.counter = make(map[string]int)
ResetCounter(t) ==
    /\ thr[t].pc = "resetCounter"
    /\ counter' = EmptyMap
    /\ admitted' = ZeroPerActor
    /\ warnings' = ZeroPerActor
    /\ thr' = [thr EXCEPT ![t].pc = "resetLogged"]
    /\ UNCHANGED <<UnitSecs, MaxCount, lastTimestamp, logged, counterMutex, clock,
                   rlRet, admitLog>>

\* limit.logged = make(map[string]struct{})
ResetLogged(t) ==
    /\ thr[t].pc = "resetLogged"
    /\ logged' = {}
    /\ thr' = [thr EXCEPT ![t].pc = "resetStamp"]
    /\ UNCHANGED <<UnitSecs, MaxCount, lastTimestamp, counter, counterMutex, clock,
                   rlRet, warnings, admitted, admitLog>>

\* limit.lastTimestamp = now
ResetStamp(t) ==
    /\ thr[t].pc = "resetStamp"
    /\ lastTimestamp' = thr[t].now
    /\ thr' = [thr EXCEPT ![t].pc = "lookup"]
    /\ UNCHANGED <<UnitSecs, MaxCount, counter, logged, counterMutex, clock, rlRet,
                   warnings, admitted, admitLog>>

\* count, exists := limit.counter[actor]; count >= limit.MaxCount
Lookup(t) ==
    /\ thr[t].pc = "lookup"
    /\ LET exists == thr[t].actor \in DOMAIN counter
           count == IF exists THEN counter[thr[t].actor] ELSE 0
       IN thr' = [thr EXCEPT ![t].exists = exists, ![t].count = count,
                             ![t].pc = IF exists /\ LimitHit(count, MaxCount)
                                       THEN "refuse" ELSE "store"]
    /\ UNCHANGED <<UnitSecs, MaxCount, lastTimestamp, counter, logged, counterMutex,
                   clock, rlRet, warnings, admitted, admitLog>>

\* The refusal: the warning and limit.logged[actor] = struct{}{}
Refuse(t) ==
    /\ thr[t].pc = "refuse"
    /\ LET logs == ShouldLog(logged, thr[t].actor, thr[t].log)
       IN /\ logged' = IF logs THEN logged \cup {thr[t].actor} ELSE logged
          /\ warnings' = IF logs THEN [warnings EXCEPT ![thr[t].actor] = @ + 1]
                         ELSE warnings
    /\ thr' = [thr EXCEPT ![t].pc = "unlockFalse"]
    /\ UNCHANGED <<UnitSecs, MaxCount, lastTimestamp, counter, counterMutex, clock,
                   rlRet, admitted, admitLog>>

\* limit.counterMutex.Unlock(); return false
UnlockFalse(t) ==
    /\ thr[t].pc = "unlockFalse"
    /\ counterMutex' = "free"
    /\ thr' = [thr EXCEPT ![t] = IdleThread]
    /\ UNCHANGED <<UnitSecs, MaxCount, lastTimestamp, counter, logged, clock, rlRet,
                   warnings, admitted, admitLog>>

\* limit.counter[actor] = count + 1, or = 1 for an actor not in the map
Store(t) ==
    /\ thr[t].pc = "store"
    /\ counter' = Put(counter, thr[t].actor, IF thr[t].exists THEN thr[t].count + 1 ELSE 1)
    /\ thr' = [thr EXCEPT ![t].pc = "unlockTrue"]
    /\ UNCHANGED <<UnitSecs, MaxCount, lastTimestamp, logged, counterMutex, clock,
                   rlRet, warnings, admitted, admitLog>>

\* limit.counterMutex.Unlock(); return true
UnlockTrue(t) ==
    /\ thr[t].pc = "unlockTrue"
    /\ counterMutex' = "free"
    /\ admitted' = [admitted EXCEPT ![thr[t].actor] = @ + 1]
    /\ thr' = [thr EXCEPT ![t] = IdleThread]
    /\ UNCHANGED <<UnitSecs, MaxCount, lastTimestamp, counter, logged, clock, rlRet,
                   warnings, admitLog>>

\* A second passes while threads are inside Add.
TickThreads ==
    /\ clock < ClockStart + ThreadHorizon
    /\ clock' = clock + 1
    /\ UNCHANGED <<UnitSecs, MaxCount, lastTimestamp, counter, logged, counterMutex,
                   thr, rlRet, warnings, admitted, admitLog>>


(***************************************************************************)
(* Text: a Go string is a sequence of one-character strings.               *)
(***************************************************************************)
Digits == {"0", "1", "2", "3", "4", "5", "6", "7", "8", "9"}
DigitValue(c) ==
    CASE c = "0" -> 0 [] c = "1" -> 1 [] c = "2" -> 2 [] c = "3" -> 3 [] c = "4" -> 4
      [] c = "5" -> 5 [] c = "6" -> 6 [] c = "7" -> 7 [] c = "8" -> 8 [] c = "9" -> 9
DigitChar(d) == CHOOSE c \in Digits : DigitValue(c) = d

\* unicode.IsSpace, on the characters of the model.
IsSpace(c) == c \in {" ", "\n"}
IsDigit(c) == c \in Digits

MinOf(S) == CHOOSE x \in S : \A y \in S : x <= y
MaxOf(S) == CHOOSE x \in S : \A y \in S : x >= y

\* strings.TrimSpace
TrimSpace(s) ==
    LET keep == {i \in 1..Len(s) : ~IsSpace(s[i])}
    IN IF keep = {} THEN <<>> ELSE SubSeq(s, MinOf(keep), MaxOf(keep))

\* strings.HasPrefix
HasPrefix(s, prefix) == Len(s) >= Len(prefix) /\ SubSeq(s, 1, Len(prefix)) = prefix

\* strings.TrimPrefix
TrimPrefix(s, prefix) ==
    IF HasPrefix(s, prefix) THEN SubSeq(s, Len(prefix) + 1, Len(s)) ELSE s

\* strings.ToLower, on the characters of the model.
LowerChar(c) == CASE c = "L" -> "l" [] c = "K" -> "k" [] OTHER -> c
ToLower(s) == [i \in 1..Len(s) |-> LowerChar(s[i])]

\* strconv.Atoi of a run of digits (the runs of the model stay far below the
\* 64-bit range, where Atoi fails).
RECURSIVE Atoi(_)
Atoi(s) == IF s = <<>> THEN 0 ELSE 10 * Atoi(SubSeq(s, 1, Len(s) - 1)) + DigitValue(s[Len(s)])

\* strconv.Itoa of a non-negative integer.
RECURSIVE Itoa(_)
Itoa(n) == IF n < 10 THEN <<DigitChar(n)>> ELSE Itoa(n \div 10) \o <<DigitChar(n % 10)>>

\* The first position from i on that holds a digit (a non-digit, a line break),
\* Len(s) + 1 when there is none.
NextDigit(s, i) == MinOf({j \in i..Len(s) : IsDigit(s[j])} \cup {Len(s) + 1})
NextNonDigit(s, i) == MinOf({j \in i..Len(s) : ~IsDigit(s[j])} \cup {Len(s) + 1})
NextLineBreak(s, i) == MinOf({j \in i..Len(s) : s[j] = "\n"} \cup {Len(s) + 1})

\* RegexCommandWithPLT.FindStringSubmatch(s), for the expression
\*   [^\d]*(\d+)[^\d]+(\d+)[^\d]*(\d+)(.*)
\* matched leftmost-first: groups 1 to 4, or <<>> when nothing matches. Each \d+
\* followed by [^\d] takes a whole run of digits; the second and third group
\* share the second run when no third run follows ([^\d]* may be empty); the dot
\* stops at a line break.
FindPLTSubmatch(s) ==
    LET a == NextDigit(s, 1)
        b == NextNonDigit(s, a)
        c == NextDigit(s, b)
        d == NextNonDigit(s, c)
        e == NextDigit(s, d)
        f == NextNonDigit(s, e)
    IN IF c > Len(s) THEN <<>>
       ELSE IF e <= Len(s)
       THEN <<SubSeq(s, a, b - 1), SubSeq(s, c, d - 1), SubSeq(s, e, f - 1),
              SubSeq(s, f, NextLineBreak(s, f) - 1)>>
       ELSE IF d - c >= 2
       THEN <<SubSeq(s, a, b - 1), SubSeq(s, c, d - 2), SubSeq(s, d - 1, d - 1),
              SubSeq(s, d, NextLineBreak(s, d) - 1)>>
       ELSE <<>>

(***************************************************************************)
(* Commands, results, filters and features: packages toolbox and filter.   *)
(***************************************************************************)
PrefixCommandPLT == <<".", "p", "l", "t">>
CombinedTextSeparator == <<"|">>

\* Error values, by name, and Error()'s text of each.
TextEmptyCommand == <<"E", "m", "p", "t", "y", " ", "c", "o", "m", "m", "a", "n", "d">>
TextBadPrefix == <<"b", "a", "d", " ", "p", "r", "e", "f", "i", "x", " ", "o", "r", " ", "f", "e", "a", "t", "u", "r", "e", " ", "i", "s", " ", "n", "o", "t", " ", "c", "o", "n", "f", "i", "g", "u", "r", "e", "d">>
TextBadPLT == <<".", "p", "l", "t", " ", "P", " ", "L", " ", "T", " ", "c", "o", "m", "m", "a", "n", "d">>
TextPLTNoLintText == <<"P", "L", "T", " ", "i", "s", " ", "n", "o", "t", " ", "a", "v", "a", "i", "l", "a", "b", "l", "e", " ", "b", "e", "c", "a", "u", "s", "e", " ", "L", "i", "n", "t", "T", "e", "x", "t", " ", "i", "s", " ", "n", "o", "t", " ", "u", "s", "e", "d">>
TextBadEnvInfoChoice == <<"l", "o", "c", "k", " ", "|", " ", "s", "t", "o", "p", " ", "|", " ", "k", "i", "l", "l", " ", "|", " ", "l", "o", "g", " ", "|", " ", "w", "a", "r", "n", " ", "|", " ", "r", "u", "n", "t", "i", "m", "e", " ", "|", " ", "s", "t", "a", "c", "k", " ", "|", " ", "t", "u", "n", "e">>
TextPINMismatch == <<"F", "a", "i", "l", "e", "d", " ", "t", "o", " ", "m", "a", "t", "c", "h", " ", "P", "I", "N", "/", "s", "h", "o", "r", "t", "c", "u", "t">>
TextEmergencyLockDown == <<"L", "O", "C", "K", "E", "D", " ", "D", "O", "W", "N">>
TextOKLockDown == <<"O", "K", " ", "-", " ", "E", "m", "e", "r", "g", "e", "n", "c", "y", "L", "o", "c", "k", "D", "o", "w", "n">>
TextEmptyOutput == <<"E", "M", "P", "T", "Y", " ", "O", "U", "T", "P", "U", "T">>
TextResultFilterFailed == <<"f", "i", "l", "t", "e", "r", " ", "f", "a", "i", "l", "e", "d">>

ErrorText(err) ==
    CASE err = "ErrEmptyCommand" -> TextEmptyCommand
      [] err = "ErrBadPrefix" -> TextBadPrefix
      [] err = "ErrBadPLT" -> TextBadPLT
      [] err = "ErrPLTNoLintText" -> TextPLTNoLintText
      [] err = "ErrBadEnvInfoChoice" -> TextBadEnvInfoChoice
      [] err = "ErrPINMismatch" -> TextPINMismatch
      [] err = "ErrEmergencyLockDown" -> TextEmergencyLockDown
      [] err = "ErrResultFilter" -> TextResultFilterFailed
      [] OTHER -> <<>>

\* toolbox.Command and toolbox.Result; Command{} and Result{} are the zero values.
NewCommand(content, timeoutSec) == [Content |-> content, TimeoutSec |-> timeoutSec]
ZeroCommand == NewCommand(<<>>, 0)
NewResult(err, output) ==
    [Command |-> ZeroCommand, Error |-> err, Output |-> output, CombinedOutput |-> <<>>]

\* Command.Trim: the trimmed command, and the error result when it is empty.
CommandTrimAcceptsEmpty(cmd) ==
    [cmd |-> [cmd EXCEPT !.Content = TrimSpace(cmd.Content)], err |-> "nil"]
CommandTrim(cmd) ==
    LET trimmed == [cmd EXCEPT !.Content = TrimSpace(cmd.Content)]
    IN [cmd |-> trimmed,
        err |-> IF trimmed.Content = <<>> THEN "ErrEmptyCommand" ELSE "nil"]

\* Command.FindAndRemovePrefix: hasPrefix, and the command afterwards.
FindAndRemovePrefixUntrimmed(cmd, prefix) ==
    LET trimmedOriginal == TrimSpace(cmd.Content)
        hasPrefix == HasPrefix(trimmedOriginal, prefix)
    IN [hasPrefix |-> hasPrefix,
        cmd |-> IF hasPrefix
                THEN [cmd EXCEPT !.Content = TrimPrefix(trimmedOriginal, prefix)]
                ELSE cmd]
FindAndRemovePrefix(cmd, prefix) ==
    LET trimmedOriginal == TrimSpace(cmd.Content)
        hasPrefix == HasPrefix(trimmedOriginal, prefix)
    IN [hasPrefix |-> hasPrefix,
        cmd |-> IF hasPrefix
                THEN [cmd EXCEPT !.Content = TrimSpace(TrimPrefix(trimmedOriginal, prefix))]
                ELSE cmd]

\* Result.ResetCombinedText
ResetCombinedText(result) ==
    [result EXCEPT !.CombinedOutput =
        IF result.Error # "nil"
        THEN ErrorText(result.Error)
             \o (IF result.Output # <<>> THEN CombinedTextSeparator ELSE <<>>)
             \o result.Output
        ELSE result.Output]

\* The configuration of the PINAndShortcuts and TranslateSequences filters.
PIN == <<"p", "w">>
ShortcutKey == <<"l", "o", "c", "k">>
ShortcutText == <<".", "e", "l", "o", "c", "k">>
Sequences == << <<(<<"#", "/">>), (<<"|">>)>> >>

\* strings.Replace(s, from, to, -1) for a non-empty from.
RECURSIVE ReplaceAll(_, _, _)
ReplaceAll(s, from, to) ==
    IF Len(s) < Len(from) THEN s
    ELSE IF HasPrefix(s, from)
    THEN to \o ReplaceAll(SubSeq(s, Len(from) + 1, Len(s)), from, to)
    ELSE <<Head(s)>> \o ReplaceAll(Tail(s), from, to)

\* PINAndShortcuts.Transform: the PIN and the whitespace after it are stripped
\* from a trimmed input that starts with the PIN; a trimmed input that is a
\* shortcut is replaced by the shortcut's text; anything else is a mismatch.
PINAndShortcutsTransform(cmd) ==
    LET trimmed == TrimSpace(cmd.Content)
    IN IF HasPrefix(trimmed, PIN)
       THEN [cmd |-> [cmd EXCEPT !.Content = TrimSpace(TrimPrefix(trimmed, PIN))],
             err |-> "nil"]
       ELSE IF trimmed = ShortcutKey
       THEN [cmd |-> [cmd EXCEPT !.Content = ShortcutText], err |-> "nil"]
       ELSE [cmd |-> ZeroCommand, err |-> "ErrPINMismatch"]

\* TranslateSequences.Transform: each pair replaced in turn, throughout the content.
RECURSIVE TranslateFrom(_, _)
TranslateFrom(content, i) ==
    IF i > Len(Sequences) THEN content
    ELSE TranslateFrom(ReplaceAll(content, Sequences[i][1], Sequences[i][2]), i + 1)
TranslateSequencesTransform(cmd) ==
    [cmd |-> [cmd EXCEPT !.Content = TranslateFrom(cmd.Content, 1)], err |-> "nil"]

\* CommandFilter.Transform, by the filter's type.
CommandFilterTransformAlwaysTranslate(filter, cmd) ==
    TranslateSequencesTransform(cmd)
CommandFilterTransform(filter, cmd) ==
    IF filter = "PINAndShortcuts" THEN PINAndShortcutsTransform(cmd)
    ELSE TranslateSequencesTransform(cmd)

\* A result filter: its type and, for a LintText, its settings.
LintText(trimSpaces, maxLength, beginPosition) ==
    [kind |-> "LintText", TrimSpaces |-> trimSpaces, MaxLength |-> maxLength,
     BeginPosition |-> beginPosition]
PlainResultFilter(kind) ==
    [kind |-> kind, TrimSpaces |-> FALSE, MaxLength |-> 0, BeginPosition |-> 0]

\* LintText.Transform: the combined output trimmed (TrimSpaces), then cut to
\* [BeginPosition, BeginPosition + MaxLength), both clamped to its length.
LintTextTransform(lint, result) ==
    LET text == IF lint.TrimSpaces THEN TrimSpace(result.CombinedOutput)
                ELSE result.CombinedOutput
        from == IF lint.BeginPosition > Len(text) THEN Len(text) ELSE lint.BeginPosition
        to == IF from + lint.MaxLength > Len(text) THEN Len(text) ELSE from + lint.MaxLength
    IN [result EXCEPT !.CombinedOutput = SubSeq(text, from + 1, to)]

\* SayEmptyOutput.Transform
SayEmptyOutputTransform(result) ==
    IF result.CombinedOutput = <<>>
    THEN [result EXCEPT !.CombinedOutput = TextEmptyOutput]
    ELSE result

\* ResultFilter.Transform, by the filter's type: the result afterwards and the
\* error returned. NotifyViaEmail sends mail and leaves the result alone;
\* FailingResultFilter is an implementation of the interface that returns an error.
ResultFilterTransform(filter, result) ==
    [result |-> CASE filter.kind = "ResetCombinedText" -> ResetCombinedText(result)
                  [] filter.kind = "LintText" -> LintTextTransform(filter, result)
                  [] filter.kind = "SayEmptyOutput" -> SayEmptyOutputTransform(result)
                  [] OTHER -> result,
     err |-> IF filter.kind = "FailingResultFilter" THEN "ErrResultFilter" ELSE "nil"]

\* Feature triggers. ".s" is the shell, ".e" is EnvControl, ".sx" is a feature
\* whose trigger extends another's.
TriggerShell == <<".", "s">>
TriggerEnvControl == <<".", "e">>
TriggerExtended == <<".", "s", "x">>

\* EnvControl.Execute: the result, and whether misc.TriggerEmergencyLockDown ran.
\* The choices other than lock act on the process and its logs only.
EnvControlExecute(cmd) ==
    LET t == CommandTrim(cmd)
    IN IF t.err # "nil" THEN [result |-> NewResult(t.err, <<>>), lock |-> FALSE]
       ELSE IF ToLower(t.cmd.Content) = <<"l", "o", "c", "k">>
       THEN [result |-> NewResult("nil", TextOKLockDown), lock |-> TRUE]
       ELSE [result |-> NewResult("ErrBadEnvInfoChoice", <<>>), lock |-> FALSE]

\* Execute of a feature outside the core: it answers with the text it was given.
EchoExecute(cmd) ==
    LET t == CommandTrim(cmd)
    IN IF t.err # "nil" THEN [result |-> NewResult(t.err, <<>>), lock |-> FALSE]
       ELSE [result |-> NewResult("nil", t.cmd.Content), lock |-> FALSE]

\* Feature.Execute, by the feature's trigger.
FeatureExecute(trigger, cmd) ==
    IF trigger = TriggerEnvControl THEN EnvControlExecute(cmd) ELSE EchoExecute(cmd)

(***************************************************************************)
(* Command processor: common.CommandProcessor                              *)
(***************************************************************************)
CommandTimeoutSec == 30
Callers == {"c1", "c2"}

\* One call of a filter or a feature made by Process: which, on what, with what
\* outcome. filter is the result filter used, settings included.
Invocation(kind, index, name, trigger, cmd, out, err, filter) ==
    [kind |-> kind, index |-> index, name |-> name, trigger |-> trigger, cmd |-> cmd,
     out |-> out, err |-> err, filter |-> filter]

\* The command filters from the i-th on, in order, each on the command the
\* previous one returned, until one returns an error.
RECURSIVE RunCommandFiltersThroughErrors(_, _, _, _)
RunCommandFiltersThroughErrors(filters, i, cmd, trace) ==
    IF i > Len(filters) THEN [cmd |-> cmd, err |-> "nil", trace |-> trace]
    ELSE LET r == CommandFilterTransform(filters[i], cmd)
             t == Append(trace, Invocation("CommandFilter", i, filters[i], <<>>, cmd,
                                           r.cmd, r.err, PlainResultFilter("none")))
         IN RunCommandFiltersThroughErrors(filters, i + 1,
                                           IF r.err # "nil" THEN cmd ELSE r.cmd, t)
RECURSIVE RunCommandFilters(_, _, _, _)
RunCommandFilters(filters, i, cmd, trace) ==
    IF i > Len(filters) THEN [cmd |-> cmd, err |-> "nil", trace |-> trace]
    ELSE LET r == CommandFilterTransform(filters[i], cmd)
             t == Append(trace, Invocation("CommandFilter", i, filters[i], <<>>, cmd,
                                           r.cmd, r.err, PlainResultFilter("none")))
         IN IF r.err # "nil" THEN [cmd |-> r.cmd, err |-> r.err, trace |-> t]
            ELSE RunCommandFilters(filters, i + 1, r.cmd, t)

\* The loop over Features.LookupByTrigger, in the order the map is iterated:
\* the first trigger FindAndRemovePrefix finds, and the command afterwards.
RECURSIVE ScanTriggers(_, _)
ScanTriggers(order, cmd) ==
    IF order = <<>> THEN [matched |-> <<>>, cmd |-> cmd]
    ELSE LET r == FindAndRemovePrefix(cmd, Head(order))
         IN IF r.hasPrefix THEN [matched |-> Head(order), cmd |-> r.cmd]
            ELSE ScanTriggers(Tail(order), cmd)

\* Process at its label "result": the locals, what was called so far, and
\* whether the feature triggered the lockdown. dispatch is the content the
\* trigger loop started from (<<>> when it was not reached).
AtResult(ret, cmd, logCommandContent, hasOverrideLintText, overrideLintText, bridgeErr, trace, lock, dispatch) ==
    [ret |-> ret, cmd |-> cmd, logCommandContent |-> logCommandContent,
     hasOverrideLintText |-> hasOverrideLintText, overrideLintText |-> overrideLintText,
     bridgeErr |-> bridgeErr, trace |-> trace, lock |-> lock, dispatch |-> dispatch]
NoOverride == PlainResultFilter("none")

\* The trigger loop and the feature's execution.
ProcessDispatch(cmd, log, has, override, trace, order) ==
    LET scan == ScanTriggers(order, cmd)
        ex == FeatureExecute(scan.matched, scan.cmd)
    IN IF scan.matched = <<>>
       THEN AtResult(NewResult("ErrBadPrefix", <<>>), scan.cmd, log, has, override, "nil",
                     trace, FALSE, cmd.Content)
       ELSE AtResult(ex.result, scan.cmd, log, has, override, "nil",
                     Append(trace, Invocation("Feature", 0, "Feature", scan.matched,
                                              scan.cmd, scan.cmd, ex.result.Error,
                                              PlainResultFilter("none"))),
                     ex.lock, cmd.Content)

\* The PLT override: the prefix, the copy of the first LintText filter, the
\* three numbers and the command.
ProcessPLT(cmd, log, trace, order, resultFilters) ==
    LET plt == FindAndRemovePrefix(cmd, PrefixCommandPLT)
        lints == {i \in 1..Len(resultFilters) : resultFilters[i].kind = "LintText"}
        copy == resultFilters[MinOf(lints)]
        pltParams == FindPLTSubmatch(plt.cmd.Content)
        override == [copy EXCEPT !.BeginPosition = Atoi(pltParams[1]),
                                 !.MaxLength = Atoi(pltParams[2])]
        parsed == NewCommand(pltParams[4], Atoi(pltParams[3]))
    IN IF ~plt.hasPrefix
       THEN ProcessDispatch(cmd, log, FALSE, NoOverride, trace, order)
       ELSE IF lints = {}
       THEN AtResult(NewResult("ErrPLTNoLintText", <<>>), plt.cmd, log, FALSE, NoOverride,
                     "nil", trace, FALSE, <<>>)
       ELSE IF pltParams = <<>>
       THEN AtResult(NewResult("ErrBadPLT", <<>>), plt.cmd, log, TRUE, copy, "nil", trace,
                     FALSE, <<>>)
       ELSE IF parsed.Content = <<>>
       THEN AtResult(NewResult("ErrBadPLT", <<>>), parsed, log, TRUE, override, "nil",
                     trace, FALSE, <<>>)
       ELSE ProcessDispatch(parsed, log, TRUE, override, trace, order)

\* Process from the command filters to the label "result".
ProcessBody(cmd, order, commandFilters, resultFilters) ==
    LET cf == RunCommandFilters(commandFilters, 1, cmd, <<>>)
        trim == CommandTrim(cf.cmd)
    IN IF cf.err # "nil"
       THEN AtResult(NewResult(cf.err, <<>>), cf.cmd, cmd.Content, FALSE, NoOverride,
                     cf.err, cf.trace, FALSE, <<>>)
       ELSE IF trim.err # "nil"
       THEN AtResult(NewResult(trim.err, <<>>), trim.cmd, cmd.Content, FALSE, NoOverride,
                     "nil", cf.trace, FALSE, <<>>)
       ELSE ProcessPLT(trim.cmd, trim.cmd.Content, cf.trace, order, resultFilters)

\* The result filters from the i-th on, the override used in place of a
\* LintText; a filter's error ends Process with Result{Command, Error: bridgeErr}.
RECURSIVE RunResultFiltersWithoutOverride(_, _, _, _)
RunResultFiltersWithoutOverride(filters, i, at, trace) ==
    IF i > Len(filters) THEN [ret |-> at.ret, trace |-> trace]
    ELSE LET used == filters[i]
             r == ResultFilterTransform(used, at.ret)
             t == Append(trace, Invocation("ResultFilter", i, used.kind, <<>>,
                                           at.ret.Command, at.ret.Command, r.err, used))
         IN IF r.err # "nil"
            THEN [ret |-> [NewResult(at.bridgeErr, <<>>) EXCEPT !.Command = r.result.Command],
                  trace |-> t]
            ELSE RunResultFiltersWithoutOverride(filters, i + 1,
                                                 [at EXCEPT !.ret = r.result], t)
RECURSIVE RunResultFilters(_, _, _, _)
RunResultFilters(filters, i, at, trace) ==
    IF i > Len(filters) THEN [ret |-> at.ret, trace |-> trace]
    ELSE LET used == IF filters[i].kind = "LintText" /\ at.hasOverrideLintText
                     THEN at.overrideLintText ELSE filters[i]
             r == ResultFilterTransform(used, at.ret)
             t == Append(trace, Invocation("ResultFilter", i, used.kind, <<>>,
                                           at.ret.Command, at.ret.Command, r.err, used))
         IN IF r.err # "nil"
            THEN [ret |-> [NewResult(at.bridgeErr, <<>>) EXCEPT !.Command = r.result.Command],
                  trace |-> t]
            ELSE RunResultFilters(filters, i + 1, [at EXCEPT !.ret = r.result], t)

\* Process from the label "result" on: the command recorded in the result, then
\* the result filters.
ProcessResultWithoutLogContent(at, resultFilters) ==
    LET ret == [at.ret EXCEPT !.Command = at.cmd]
    IN RunResultFilters(resultFilters, 1, [at EXCEPT !.ret = ret], at.trace)
ProcessResult(at, resultFilters) ==
    LET ret == [at.ret EXCEPT !.Command = [at.cmd EXCEPT !.Content = at.logCommandContent]]
    IN RunResultFilters(resultFilters, 1, [at EXCEPT !.ret = ret], at.trace)

\* The installed result filters after Process took its copy of the LintText
\* filter and wrote the override into the copy.
InstalledAfterOverrideInPlace(resultFilters, at) ==
    [i \in 1..Len(resultFilters) |->
        IF resultFilters[i].kind = "LintText" /\ at.hasOverrideLintText
        THEN at.overrideLintText ELSE resultFilters[i]]
InstalledAfterOverride(resultFilters, at) == resultFilters

\* The lockdown test at the entry of Process.
LockedDownNever(flag) == FALSE
LockedDown(flag) == flag

\* misc.TriggerEmergencyLockDown sets the process-wide flag.
TriggerEmergencyLockDown(flag) == TRUE

VARIABLES
    EmergencyLockDown,  \* misc.EmergencyLockDown
    CommandFilters,     \* CommandProcessor.CommandFilters: the filters' types, in order
    ResultFilters,      \* CommandProcessor.ResultFilters: the installed filters, in order
    LookupByTrigger,    \* CommandProcessor.Features.LookupByTrigger: its triggers
    configured,         \* history: ResultFilters as configured at start
    calls               \* each caller's Process call: position, input, locals, result

procVars == <<EmergencyLockDown, CommandFilters, ResultFilters, LookupByTrigger,
              configured, calls>>

(***************************************************************************)
(* The commands given to Process. Each carries how it was put together:    *)
(* kind, whether it leads with the PIN, the PLT numbers, and the command   *)
(* after them.                                                             *)
(***************************************************************************)
Sp == <<" ">>
Input(content, kind, pin, P, L, T, body) ==
    [cmd |-> NewCommand(content, CommandTimeoutSec), kind |-> kind, pin |-> pin,
     P |-> P, L |-> L, T |-> T, body |-> body]
NoInput == Input(<<>>, "none", FALSE, 0, 0, 0, <<>>)

BodyEcho == <<".", "s", " ", "h", "i">>
BodyLock == <<".", "e", " ", "l", "o", "c", "k">>
BodyLockUpper == <<".", "e", "L", "o", "c", "K">>
BodyBadChoice == <<".", "e", " ", "h", "i">>
BodyExtended == <<".", "s", "x", " ", "h", "i">>
BodyNoTrigger == <<"h", "i">>
BodyTriggerOnly == <<".", "s">>
BodyDigits == <<".", "s", " ", "7", " ", "8", " ", ".", "e", " ", "l", "o", "c", "k">>
BodyTwoLines == <<".", "s", " ", "h", "i", "\n", ".", "e", " ", "l", "o", "c", "k">>
BodyTranslated == <<".", "s", " ", "h", "#", "/", "i">>
Bodies == {BodyEcho, BodyLock, BodyLockUpper, BodyBadChoice, BodyExtended, BodyNoTrigger,
           BodyTriggerOnly, BodyDigits, BodyTwoLines, BodyTranslated}
FewBodies == {BodyEcho, BodyLock}

PLTBegins == {0, 2}
PLTLengths == {2, 13}
PLTTimeouts == {0, 13}
GoodLeads == {PIN, Sp \o PIN \o Sp}
BadLeads == {<<>>, <<"q", "w">> \o Sp}
PLTLead == PIN \o Sp \o PrefixCommandPLT \o Sp
\* White space and line breaks around a command.
Surround == <<"\n", " ", "\n">>

PlainInputs ==
    {Input(lead \o body, "plain", TRUE, 0, 0, 0, body) :
        lead \in GoodLeads, body \in Bodies \cup {<<>>, Sp}}
    \cup {Input(lead \o body, "plain", FALSE, 0, 0, 0, body) :
        lead \in BadLeads, body \in Bodies \cup {<<>>, Sp}}
    \cup {Input(lead \o ShortcutKey \o Sp, "shortcut", FALSE, 0, 0, 0, ShortcutText) :
        lead \in {<<>>, Sp, Surround}}
    \cup {Input(Surround \o PIN \o body \o Surround, "plain", TRUE, 0, 0, 0, body) :
        body \in FewBodies \cup {BodyNoTrigger}}

\* ".plt P L T <command>"
WellFormedPLTInputs ==
    {Input(PLTLead \o Itoa(P) \o Sp \o Itoa(L) \o Sp \o Itoa(T) \o Sp \o body,
           "plt", TRUE, P, L, T, body) :
        P \in PLTBegins, L \in PLTLengths, T \in PLTTimeouts, body \in Bodies}

\* ".plt" followed by fewer than three numbers, then a command.
FewerNumbersInputs ==
    {Input(PLTLead \o body, "fewer", TRUE, 0, 0, 0, body) : body \in Bodies}
    \cup {Input(PLTLead \o Itoa(P) \o Sp \o body, "fewer", TRUE, P, 0, 0, body) :
        P \in PLTBegins, body \in Bodies}
    \cup {Input(PLTLead \o Itoa(P) \o Sp \o Itoa(L) \o Sp \o body, "fewer", TRUE, P, L, 0,
                body) :
        P \in PLTBegins, L \in PLTLengths, body \in Bodies}

\* ".plt" followed by three numbers of which two or three are not separated.
UnseparatedInputs ==
    {Input(PLTLead \o Itoa(P) \o Itoa(L) \o Sp \o Itoa(T) \o Sp \o body,
           "unseparated", TRUE, P, L, T, body) :
        P \in PLTBegins, L \in PLTLengths, T \in PLTTimeouts, body \in FewBodies}
    \cup {Input(PLTLead \o Itoa(P) \o Sp \o Itoa(L) \o Itoa(T) \o Sp \o body,
                "unseparated", TRUE, P, L, T, body) :
        P \in PLTBegins, L \in PLTLengths, T \in PLTTimeouts, body \in FewBodies}
    \cup {Input(PLTLead \o Itoa(P) \o Itoa(L) \o Itoa(T) \o Sp \o body,
                "unseparated", TRUE, P, L, T, body) :
        P \in PLTBegins, L \in PLTLengths, T \in PLTTimeouts, body \in FewBodies}

\* ".plt P L T" with nothing after T.
NoCommandInputs ==
    {Input(PLTLead \o Itoa(P) \o Sp \o Itoa(L) \o Sp \o Itoa(T) \o tail,
           "noCommand", TRUE, P, L, T, <<>>) :
        P \in PLTBegins, L \in PLTLengths, T \in PLTTimeouts, tail \in {<<>>, Sp}}

\* ".plt" commands that do not lead with the PIN.
UnauthenticatedPLTInputs ==
    {Input(PrefixCommandPLT \o Sp \o Itoa(P) \o Sp \o Itoa(L) \o Sp \o Itoa(T) \o Sp \o body,
           "plt", FALSE, P, L, T, body) :
        P \in {2}, L \in {13}, T \in PLTTimeouts, body \in FewBodies}

Inputs == PlainInputs \cup WellFormedPLTInputs \cup FewerNumbersInputs
          \cup UnseparatedInputs \cup NoCommandInputs \cup UnauthenticatedPLTInputs

\* The commands several callers send at once.
ThreadInputs ==
    {Input(PLTLead \o Itoa(2) \o Sp \o Itoa(13) \o Sp \o Itoa(0) \o Sp \o BodyEcho,
           "plt", TRUE, 2, 13, 0, BodyEcho),
     Input(PLTLead \o Itoa(13) \o Sp \o Itoa(2) \o Sp \o Itoa(0),
           "noCommand", TRUE, 13, 2, 0, <<>>),
     Input(PIN \o Sp \o BodyEcho, "plain", TRUE, 0, 0, 0, BodyEcho),
     Input(PIN \o Sp \o BodyBadChoice, "plain", TRUE, 0, 0, 0, BodyBadChoice)}

\* The configurations of the processor.
CommandFilterLists ==
    {<<"PINAndShortcuts", "TranslateSequences">>,
     <<"TranslateSequences", "PINAndShortcuts">>,
     <<"PINAndShortcuts">>}
ResultFilterLists ==
    {<<PlainResultFilter("ResetCombinedText"), LintText(TRUE, 35, 0),
       PlainResultFilter("SayEmptyOutput"), PlainResultFilter("NotifyViaEmail")>>,
     <<PlainResultFilter("ResetCombinedText"), LintText(FALSE, 4, 1),
       PlainResultFilter("SayEmptyOutput")>>,
     <<PlainResultFilter("ResetCombinedText"), PlainResultFilter("SayEmptyOutput")>>}
TriggerSets ==
    {{TriggerShell, TriggerEnvControl},
     {TriggerShell, TriggerEnvControl, TriggerExtended}}

\* Configurations one of whose result filters returns an error.
FailingResultFilterLists ==
    {<<PlainResultFilter("ResetCombinedText"), LintText(TRUE, 35, 0),
       PlainResultFilter("FailingResultFilter"), PlainResultFilter("SayEmptyOutput")>>,
     <<PlainResultFilter("FailingResultFilter"), PlainResultFilter("ResetCombinedText"),
       LintText(TRUE, 35, 0)>>}

\* The orders in which Go may iterate over a map with the keys S.
IterationOrders(S) ==
    {o \in [1..Cardinality(S) -> S] : \A i, j \in 1..Cardinality(S) : i # j => o[i] # o[j]}

NoAtResult ==
    AtResult(NewResult("nil", <<>>), ZeroCommand, <<>>, FALSE, NoOverride, "nil", <<>>,
             FALSE, <<>>)
IdleCall ==
    [pc |-> "idle", input |-> NoInput, locked |-> FALSE, overlapped |-> FALSE,
     at |-> NoAtResult, ret |-> NewResult("nil", <<>>), trace |-> <<>>]



\* Process(cmd), the whole call; order is the iteration order of the trigger map.
Process(c, input, order) ==
    /\ calls[c].pc = "idle"
    /\ IF LockedDown(EmergencyLockDown)
       THEN /\ calls' = [calls EXCEPT ![c] =
                           [IdleCall EXCEPT !.pc = "done", !.input = input,
                                            !.locked = EmergencyLockDown,
                                            !.ret = NewResult("ErrEmergencyLockDown", <<>>)]]
            /\ UNCHANGED <<EmergencyLockDown, ResultFilters>>
       ELSE LET at == ProcessBody(input.cmd, order, CommandFilters, ResultFilters)
                installed == InstalledAfterOverride(ResultFilters, at)
                end == ProcessResult(at, installed)
            IN /\ calls' = [calls EXCEPT ![c] =
                              [pc |-> "done", input |-> input,
                               locked |-> EmergencyLockDown, overlapped |-> FALSE,
                               at |-> at,
                               ret |-> end.ret, trace |-> end.trace]]
               /\ EmergencyLockDown' = IF at.lock
                                       THEN TriggerEmergencyLockDown(EmergencyLockDown)
                                       ELSE EmergencyLockDown
               /\ ResultFilters' = installed
    /\ UNCHANGED <<CommandFilters, LookupByTrigger, configured>>

\* Whether a call of another caller is under way, holding a PLT override.
Overlapping(c) ==
    \E d \in Callers \ {c} :
        calls[d].pc = "result" /\ calls[d].at.hasOverrideLintText

\* Process up to the label "result", as one of several concurrent calls.
ProcessBegin(c, input, order) ==
    /\ calls[c].pc = "idle"
    /\ IF LockedDown(EmergencyLockDown)
       THEN /\ calls' = [calls EXCEPT ![c] =
                           [IdleCall EXCEPT !.pc = "done", !.input = input,
                                            !.locked = EmergencyLockDown,
                                            !.ret = NewResult("ErrEmergencyLockDown", <<>>)]]
            /\ UNCHANGED <<EmergencyLockDown, ResultFilters>>
       ELSE LET at == ProcessBody(input.cmd, order, CommandFilters, ResultFilters)
            IN /\ calls' = [calls EXCEPT ![c] =
                              [IdleCall EXCEPT !.pc = "result", !.input = input,
                                               !.locked = EmergencyLockDown,
                                               !.overlapped = Overlapping(c),
                                               !.at = at, !.trace = at.trace]]
               /\ EmergencyLockDown' = IF at.lock
                                       THEN TriggerEmergencyLockDown(EmergencyLockDown)
                                       ELSE EmergencyLockDown
               /\ ResultFilters' = InstalledAfterOverride(ResultFilters, at)
    /\ UNCHANGED <<CommandFilters, LookupByTrigger, configured>>

\* Process from the label "result" to its return.
ProcessEnd(c) ==
    /\ calls[c].pc = "result"
    /\ LET end == ProcessResult(calls[c].at, ResultFilters)
       IN calls' = [calls EXCEPT ![c].pc = "done", ![c].ret = end.ret,
                                 ![c].trace = end.trace]
    /\ UNCHANGED <<EmergencyLockDown, CommandFilters, ResultFilters, LookupByTrigger,
                   configured>>

\* The caller takes the result; it may call again.
Deliver(c) ==
    /\ calls[c].pc = "done"
    /\ calls' = [calls EXCEPT ![c] = IdleCall]
    /\ UNCHANGED <<EmergencyLockDown, CommandFilters, ResultFilters, LookupByTrigger,
                   configured>>

(***************************************************************************)
(* The sanity check of a processor's configuration and the daemons'        *)
(* Initialise: common.CommandProcessor.IsSaneForInternet,                  *)
(* telegrambot.Daemon.Initialise, httpd.Daemon.Initialise                  *)
(***************************************************************************)
MinPINLength == 7
MinSaneMaxLength == 35
MaxSaneMaxLength == 4096

\* A processor's configuration as the check reads it: whether each field is
\* assigned (not nil), the number of features in LookupByTrigger, the command
\* filters with the PIN's length and the number of shortcuts, the result
\* filters with MaxLength.
PINFilter(pinLength, shortcuts) ==
    [kind |-> "PINAndShortcuts", PINLength |-> pinLength, Shortcuts |-> shortcuts]
OtherCommandFilter == [kind |-> "TranslateSequences", PINLength |-> 0, Shortcuts |-> 0]
ProcessorConfig(featuresAssigned, features, commandFilters, resultFilters) ==
    [FeaturesAssigned |-> featuresAssigned, LookupByTrigger |-> features,
     CommandFilters |-> commandFilters, ResultFilters |-> resultFilters]
\* A filter list: nil, or the filters in order.
NilList == [assigned |-> FALSE, list |-> <<>>]
ListOf(filters) == [assigned |-> TRUE, list |-> filters]

\* A finding of IsSaneForInternet: ErrBadProcessorConfig, then what is wrong.
Finding(what) == [prefix |-> "ErrBadProcessorConfig", what |-> what]

\* The finding on the features, on the command filters, on the result filters
\* (<<>> when there is none).
FeatureFindings(proc) ==
    IF ~proc.FeaturesAssigned THEN <<Finding("FeatureSet is not assigned")>>
    ELSE IF proc.LookupByTrigger = 0 THEN <<Finding("FeatureSet is not initialised")>>
    ELSE <<>>
CommandFilterFindings(proc) ==
    LET pins == {i \in 1..Len(proc.CommandFilters.list) :
                    proc.CommandFilters.list[i].kind = "PINAndShortcuts"}
        pin == proc.CommandFilters.list[MinOf(pins)]
    IN IF ~proc.CommandFilters.assigned THEN <<Finding("CommandFilters is not assigned")>>
       ELSE IF pins = {} THEN <<Finding("PINAndShortcuts is not used")>>
       ELSE IF pin.PINLength = 0 /\ pin.Shortcuts = 0
       THEN <<Finding("PIN is empty and there is no shortcut")>>
       ELSE IF pin.PINLength # 0 /\ pin.PINLength < MinPINLength
       THEN <<Finding("PIN is too short")>>
       ELSE <<>>
ResultFilterFindings(proc) ==
    LET lints == {i \in 1..Len(proc.ResultFilters.list) :
                     proc.ResultFilters.list[i].kind = "LintText"}
        linter == proc.ResultFilters.list[MinOf(lints)]
    IN IF ~proc.ResultFilters.assigned THEN <<Finding("ResultFilters is not assigned")>>
       ELSE IF lints = {} THEN <<Finding("LintText is not used")>>
       ELSE IF linter.MaxLength < MinSaneMaxLength \/ linter.MaxLength > MaxSaneMaxLength
       THEN <<Finding("Maximum output length is not within [35, 4096]")>>
       ELSE <<>>

\* CommandProcessor.IsSaneForInternet: the findings, in the order they are appended.
IsSaneForInternetFirstFindingOnly(proc) ==
    LET all == FeatureFindings(proc) \o CommandFilterFindings(proc)
               \o ResultFilterFindings(proc)
    IN IF all = <<>> THEN <<>> ELSE <<Head(all)>>
IsSaneForInternet(proc) ==
    FeatureFindings(proc) \o CommandFilterFindings(proc) \o ResultFilterFindings(proc)

\* CommandProcessor.IsEmpty
IsEmpty(proc) == ~proc.CommandFilters.assigned \/ Len(proc.CommandFilters.list) = 0

\* GetEmptyCommandProcessor: a PIN of 256 characters, LintText{MaxLength: 35};
\* features is the number of features FeatureSet{}.Initialise() leaves in
\* LookupByTrigger.
GetEmptyCommandProcessor(features) ==
    ProcessorConfig(TRUE, features, ListOf(<<PINFilter(256, 0)>>),
                    ListOf(<<PlainResultFilter("ResetCombinedText"), LintText(FALSE, 35, 0),
                             PlainResultFilter("SayEmptyOutput")>>))

\* The configurations put to the check.
PINLengths == {0, MinPINLength - 1, MinPINLength}
MaxLengths == {MinSaneMaxLength - 1, MinSaneMaxLength, MaxSaneMaxLength,
               MaxSaneMaxLength + 1}
PINFilters == {PINFilter(n, k) : n \in PINLengths, k \in {0, 1}}
CommandFilterConfigs ==
    {NilList, ListOf(<<>>), ListOf(<<OtherCommandFilter>>)}
    \cup {ListOf(<<f>>) : f \in PINFilters}
    \cup {ListOf(<<OtherCommandFilter, f>>) : f \in PINFilters}
    \cup {ListOf(<<PINFilter(MinPINLength, 0), PINFilter(MinPINLength - 1, 0)>>),
          ListOf(<<PINFilter(0, 0), PINFilter(MinPINLength, 0)>>)}
ResultFilterConfigs ==
    {NilList, ListOf(<<>>), ListOf(<<PlainResultFilter("ResetCombinedText")>>)}
    \cup {ListOf(<<PlainResultFilter("ResetCombinedText"), LintText(TRUE, n, 0)>>) :
             n \in MaxLengths}
    \cup {ListOf(<<LintText(TRUE, MinSaneMaxLength, 0),
                   LintText(TRUE, MinSaneMaxLength - 1, 0)>>),
          ListOf(<<LintText(TRUE, MaxSaneMaxLength + 1, 0),
                   LintText(TRUE, MinSaneMaxLength, 0)>>)}
ProcessorConfigs ==
    {ProcessorConfig(fa, IF fa THEN n ELSE 0, cf, rf) :
        fa \in BOOLEAN, n \in {0, 2}, cf \in CommandFilterConfigs,
        rf \in ResultFilterConfigs}

VARIABLES
    candidate,   \* the processor given to a daemon: whether there is one, and its configuration
    errs,        \* the list IsSaneForInternet returned for it, once called
    bot,         \* telegrambot.Daemon: configuration, userRateLimit, what Initialise returned
    httpd        \* httpd.Daemon: configuration, Processor, what Initialise returned

saneVars == <<candidate, errs, bot, httpd>>

NoError == [text |-> "nil", findings |-> <<>>]
InitialiseError(text, findings) == [text |-> text, findings |-> findings]
NoProcessor == ProcessorConfig(FALSE, 0, NilList, NilList)

\* telegrambot.Daemon.Initialise: the error returned and whether userRateLimit
\* was made.
BotInitialiseTokenFirst(processorPresent, proc, token, rateLimit) ==
    IF ~processorPresent \/ IsEmpty(proc)
    THEN [err |-> InitialiseError("command processor and its filters must be configured",
                                  <<>>),
          userRateLimit |-> "nil"]
    ELSE IF token = ""
    THEN [err |-> InitialiseError("AuthorizationToken must not be empty", <<>>),
          userRateLimit |-> "nil"]
    ELSE IF IsSaneForInternet(proc) # <<>>
    THEN [err |-> InitialiseError("telegrambot.Initialise", IsSaneForInternet(proc)),
          userRateLimit |-> "nil"]
    ELSE IF rateLimit < 1
    THEN [err |-> InitialiseError("RateLimit must be greater than 0", <<>>),
          userRateLimit |-> "nil"]
    ELSE [err |-> NoError, userRateLimit |-> "initialised"]
BotInitialise(processorPresent, proc, token, rateLimit) ==
    IF ~processorPresent \/ IsEmpty(proc)
    THEN [err |-> InitialiseError("command processor and its filters must be configured",
                                  <<>>),
          userRateLimit |-> "nil"]
    ELSE IF IsSaneForInternet(proc) # <<>>
    THEN [err |-> InitialiseError("telegrambot.Initialise", IsSaneForInternet(proc)),
          userRateLimit |-> "nil"]
    ELSE IF token = ""
    THEN [err |-> InitialiseError("AuthorizationToken must not be empty", <<>>),
          userRateLimit |-> "nil"]
    ELSE IF rateLimit < 1
    THEN [err |-> InitialiseError("RateLimit must be greater than 0", <<>>),
          userRateLimit |-> "nil"]
    ELSE [err |-> NoError, userRateLimit |-> "initialised"]

\* httpd.Daemon.Initialise up to the checks of its own settings: the processor
\* it keeps and the error returned. A missing or empty processor is replaced by
\* GetEmptyCommandProcessor().
HttpdInitialise(processorPresent, proc, features, address, port, baseRateLimit) ==
    LET used == IF ~processorPresent \/ IsEmpty(proc)
                THEN GetEmptyCommandProcessor(features) ELSE proc
    IN [Processor |-> used,
        err |-> IF IsSaneForInternet(used) # <<>>
                THEN InitialiseError("httpd.Initialise", IsSaneForInternet(used))
                ELSE IF address = "" THEN InitialiseError("listen address is empty", <<>>)
                ELSE IF port < 1
                THEN InitialiseError("listen port must be greater than 0", <<>>)
                ELSE IF baseRateLimit < 1
                THEN InitialiseError("BaseRateLimit must be greater than 0", <<>>)
                ELSE NoError]


\* proc.IsSaneForInternet() on the candidate.
CallIsSaneForInternet ==
    /\ candidate.present
    /\ ~errs.called
    /\ errs' = [called |-> TRUE, list |-> IsSaneForInternet(candidate.proc)]
    /\ UNCHANGED <<candidate, bot, httpd>>

\* bot.Initialise() with the candidate as its Processor.
CallBotInitialise ==
    /\ ~bot.initialised
    /\ LET r == BotInitialise(candidate.present, candidate.proc, bot.AuthorizationToken,
                              bot.RateLimit)
       IN bot' = [bot EXCEPT !.initialised = TRUE, !.err = r.err,
                             !.userRateLimit = r.userRateLimit]
    /\ UNCHANGED <<candidate, errs, httpd>>

\* daemon.Initialise() of httpd with the candidate as its Processor.
CallHttpdInitialise ==
    /\ ~httpd.initialised
    /\ LET r == HttpdInitialise(candidate.present, candidate.proc, httpd.features,
                                httpd.Address, httpd.Port, httpd.BaseRateLimit)
       IN httpd' = [httpd EXCEPT !.initialised = TRUE, !.err = r.err,
                                 !.Processor = r.Processor]
    /\ UNCHANGED <<candidate, errs, bot>>

(***************************************************************************)
(* The daemons' StartAndBlock loops and Stop: plainsocket StartAndBlockTCP  *)
(* and StartAndBlockUDP, sockd StartAndBlockUDP, telegrambot StartAndBlock  *)
(* and Stop. One daemon is started in a behaviour.                         *)
(***************************************************************************)
MaxStops == 2

Daemons == {"tcp", "udp", "relay", "chat"}
SocketDaemons == {"tcp", "udp", "relay"}
Stoppers == {"s1", "s2"}

VARIABLES
    daemon,          \* the daemon that is started
    loop,          \* StartAndBlock: where it is, its listener, what it returned
    loopIsRunning, \* telegrambot Daemon.loopIsRunning, sockd Daemon.udpLoopIsRunning
    stops          \* the callers of Stop: where each is and how often it has called

lifeVars == <<daemon, loop, loopIsRunning, stops>>

\* StartAndBlock before it is called: daemon.tcpListener / udpListener is nil
\* (field), no socket is open (sock). closedBy, failure and checkedFlag record
\* who closed the socket, which call failed, and the value of the lockdown
\* flag the current iteration read.
IdleLoop ==
    [pc |-> "idle", ret |-> "none", field |-> "nil", sock |-> "none", closedBy |-> "none",
     failure |-> "none", checkedFlag |-> FALSE]
IdleStopper == [pc |-> "idle", count |-> 0]

\* return: the deferred Close of the listener runs.
Return(l, ret) ==
    [l EXCEPT !.pc = "returned", !.ret = ret,
              !.sock = IF l.sock = "open" THEN "closed" ELSE l.sock,
              !.closedBy = IF l.sock = "open" THEN "defer" ELSE l.closedBy]

\* The test of the lockdown flag at the head of every iteration.
LockDownSeenNever(flag) == FALSE
LockDownSeen(flag) == flag

\* What a failed Accept, ReadFromUDP or ReadFrom leads to when the error does
\* not say "closed": plainsocket returns the error, sockd logs it and reads on.
AfterFailedIOContinue(d) == "continue"
AfterFailedIO(d) == IF d = "relay" THEN "continue" ELSE "return"

\* StartAndBlock is called.
StartAndBlock ==
    /\ loop.pc = "idle"
    /\ loop' = [loop EXCEPT !.pc = IF daemon = "chat" THEN "selfTest" ELSE "listen"]
    /\ UNCHANGED <<daemon, loopIsRunning, stops, EmergencyLockDown>>

\* net.Listen / net.ListenUDP
Listen(ok) ==
    /\ loop.pc = "listen"
    /\ loop' = IF ok THEN [loop EXCEPT !.pc = "keep", !.sock = "open"]
               ELSE Return([loop EXCEPT !.failure = "listen"], "ErrListen")
    /\ UNCHANGED <<daemon, loopIsRunning, stops, EmergencyLockDown>>

\* daemon.tcpListener = listener
KeepListener ==
    /\ loop.pc = "keep"
    /\ loop' = [loop EXCEPT !.pc = "top", !.field = "set"]
    /\ UNCHANGED <<daemon, loopIsRunning, stops, EmergencyLockDown>>

\* The chat bot's test call of the API.
SelfTest(ok) ==
    /\ loop.pc = "selfTest"
    /\ loop' = IF ok THEN [loop EXCEPT !.pc = "top"]
               ELSE Return([loop EXCEPT !.failure = "selfTest"], "ErrSelfTest")
    /\ UNCHANGED <<daemon, loopIsRunning, stops, EmergencyLockDown>>

\* The head of an iteration: if misc.EmergencyLockDown { return ... }
CheckLockDown ==
    /\ loop.pc = "top"
    /\ IF LockDownSeen(EmergencyLockDown)
       THEN /\ loop' = Return([loop EXCEPT !.checkedFlag = EmergencyLockDown],
                              "ErrEmergencyLockDown")
            /\ loopIsRunning' = IF daemon = "chat" THEN 0 ELSE loopIsRunning
       ELSE /\ loop' = [loop EXCEPT !.pc = "io", !.checkedFlag = EmergencyLockDown]
            /\ loopIsRunning' = IF daemon \in {"chat", "relay"} THEN 1 ELSE loopIsRunning
    /\ UNCHANGED <<daemon, stops, EmergencyLockDown>>

\* Accept / ReadFromUDP / ReadFrom on a closed listener: the error says
\* "closed" and StartAndBlock returns nil.
IOOnClosedListener ==
    /\ daemon \in SocketDaemons
    /\ loop.pc = "io"
    /\ loop.sock = "closed"
    /\ loop' = Return(loop, "nil")
    /\ UNCHANGED <<daemon, loopIsRunning, stops, EmergencyLockDown>>

\* A connection or a datagram arrives: it is handed on and the loop goes round.
IOArrives ==
    /\ daemon \in SocketDaemons
    /\ loop.pc = "io"
    /\ loop.sock = "open"
    /\ loop' = [loop EXCEPT !.pc = "top"]
    /\ UNCHANGED <<daemon, loopIsRunning, stops, EmergencyLockDown>>

\* Accept / ReadFromUDP / ReadFrom fails on an open listener.
IOFails ==
    /\ daemon \in SocketDaemons
    /\ loop.pc = "io"
    /\ loop.sock = "open"
    /\ loop' = IF AfterFailedIO(daemon) = "return"
               THEN Return([loop EXCEPT !.failure = "io"], "ErrIO")
               ELSE [loop EXCEPT !.pc = "top", !.failure = "io"]
    /\ UNCHANGED <<daemon, loopIsRunning, stops, EmergencyLockDown>>

\* The chat bot polls for messages and handles them; whatever the outcome it
\* goes to sleepAndContinue.
Poll ==
    /\ daemon = "chat"
    /\ loop.pc = "io"
    /\ loop' = [loop EXCEPT !.pc = "sleep"]
    /\ UNCHANGED <<daemon, loopIsRunning, stops, EmergencyLockDown>>

\* select { case <-bot.stop: ...; case <-time.After(...): }. bot.stop is never
\* made: a receive from a nil channel is never ready, the timer is.
SleepAndContinue ==
    /\ daemon = "chat"
    /\ loop.pc = "sleep"
    /\ loop' = [loop EXCEPT !.pc = "top"]
    /\ UNCHANGED <<daemon, loopIsRunning, stops, EmergencyLockDown>>

\* Stop of a daemon with a listener: the listener, if the field holds one, is
\* closed; closing it again changes nothing.
StopListener(s) ==
    /\ daemon \in SocketDaemons
    /\ stops[s].pc \in {"idle", "returned"}
    /\ stops[s].count < MaxStops
    /\ stops' = [stops EXCEPT ![s] = [pc |-> "returned", count |-> stops[s].count + 1]]
    /\ loop' = IF loop.field = "set" /\ loop.sock = "open"
               THEN [loop EXCEPT !.sock = "closed", !.closedBy = "stop"]
               ELSE loop
    /\ UNCHANGED <<daemon, loopIsRunning, EmergencyLockDown>>

\* telegrambot Stop: if atomic.CompareAndSwapInt32(&bot.loopIsRunning, 1, 0)
\* { bot.stop <- true }. The send is on the channel that was never made, and a
\* send on a nil channel never completes: the caller stays at "send".
StopBot(s) ==
    /\ daemon = "chat"
    /\ stops[s].pc \in {"idle", "returned"}
    /\ stops[s].count < MaxStops
    /\ stops' = [stops EXCEPT ![s] = [pc |-> IF loopIsRunning = 1 THEN "send" ELSE "returned",
                                      count |-> stops[s].count + 1]]
    /\ loopIsRunning' = 0
    /\ UNCHANGED <<daemon, loop, EmergencyLockDown>>

\* misc.TriggerEmergencyLockDown()
SetLockDown ==
    /\ ~EmergencyLockDown
    /\ EmergencyLockDown' = TriggerEmergencyLockDown(EmergencyLockDown)
    /\ UNCHANGED <<daemon, loop, loopIsRunning, stops>>

(***************************************************************************)
(* A conversation over TCP: plainsocket HandleTCPConnection. Each          *)
(* connection is served by a goroutine of its own; the limiter and the     *)
(* processor are the daemon's.                                             *)
(***************************************************************************)
\* Lines a client sends over one connection.
MaxLines == 2

LineEnd == <<"\r", "\n">>
\* The lines clients send: a command with the PIN, and one without.
ConnLines ==
    {Input(PIN \o Sp \o BodyEcho, "plain", TRUE, 0, 0, 0, BodyEcho),
     Input(<<"q", "w">> \o Sp \o BodyEcho, "plain", FALSE, 0, 0, 0, BodyEcho)}

\* Where the connections come from: the second from the same address as the
\* first, or from another.
ClientIPs(c) == IF c = "c1" THEN {"alice"} ELSE Actors

VARIABLES
    conns   \* per connection: where its handler is, the lines sent and not yet read,
            \* and the record of what was sent, processed and written

connVars == <<conns>>

NoConnection ==
    [pc |-> "none", ip |-> "none", unread |-> <<>>, line |-> NoInput, sent |-> <<>>,
     processed |-> <<>>, wrote |-> <<>>]

\* reader.ReadLine: the earliest line not yet read.
ReadLineLatest(unread) ==
    [line |-> unread[Len(unread)], rest |-> SubSeq(unread, 1, Len(unread) - 1)]
ReadLine(unread) == [line |-> Head(unread), rest |-> Tail(unread)]

\* The daemon accepts the connection and starts its handler.
Connect(c, ip) ==
    /\ conns[c].pc = "none"
    /\ conns' = [conns EXCEPT ![c] = [NoConnection EXCEPT !.pc = "admit", !.ip = ip]]
    /\ UNCHANGED <<rlVars, procVars>>

\* The client sends a line.
ClientSends(c, line) ==
    /\ conns[c].pc \notin {"none", "closed"}
    /\ Len(conns[c].sent) < MaxLines
    /\ conns' = [conns EXCEPT ![c].unread = Append(@, line), ![c].sent = Append(@, line)]
    /\ UNCHANGED <<rlVars, procVars>>

\* if !daemon.rateLimit.Add(clientIP, true) { return }, before any line is read.
AdmitConnection(c) ==
    /\ conns[c].pc = "admit"
    /\ Add(conns[c].ip, TRUE)
    /\ conns' = [conns EXCEPT ![c].pc = IF rlRet'.ret THEN "read" ELSE "closed"]
    /\ UNCHANGED procVars

\* line, _, err := reader.ReadLine() with a line at hand.
ReadOneLine(c) ==
    /\ conns[c].pc = "read"
    /\ conns[c].unread # <<>>
    /\ LET r == ReadLine(conns[c].unread)
       IN conns' = [conns EXCEPT ![c].pc = "limit", ![c].line = r.line,
                                 ![c].unread = r.rest]
    /\ UNCHANGED <<rlVars, procVars>>

\* ReadLine returns an error (the client closed the connection, or the read
\* deadline passed): the handler returns and the connection is closed.
ReadEnds(c) ==
    /\ conns[c].pc = "read"
    /\ conns[c].unread = <<>>
    /\ conns' = [conns EXCEPT ![c].pc = "closed"]
    /\ UNCHANGED <<rlVars, procVars>>

\* if !daemon.rateLimit.Add(clientIP, true) { return }, for the line read.
AdmitLine(c) ==
    /\ conns[c].pc = "limit"
    /\ Add(conns[c].ip, TRUE)
    /\ conns' = [conns EXCEPT ![c].pc = IF rlRet'.ret THEN "process" ELSE "closed"]
    /\ UNCHANGED procVars

\* result := daemon.Processor.Process(toolbox.Command{Content: string(line), ...})
ProcessLine(c, order) ==
    /\ conns[c].pc = "process"
    /\ Process(c, conns[c].line, order)
    /\ conns' = [conns EXCEPT ![c].pc = "write",
                              ![c].processed = Append(@, [line |-> conns[c].line,
                                                          result |-> calls'[c].ret])]
    /\ UNCHANGED rlVars

\* clientConn.Write([]byte(result.CombinedOutput))
WriteCombinedOutput(c) ==
    /\ conns[c].pc = "write"
    /\ conns' = [conns EXCEPT ![c].pc = "writeEnd",
                              ![c].wrote = Append(@, calls[c].ret.CombinedOutput)]
    /\ UNCHANGED <<rlVars, procVars>>

\* clientConn.Write([]byte("\r\n")), and round the loop.
WriteLineEnd(c) ==
    /\ conns[c].pc = "writeEnd"
    /\ Deliver(c)
    /\ conns' = [conns EXCEPT ![c].pc = "read", ![c].wrote = Append(@, LineEnd)]
    /\ UNCHANGED rlVars

(***************************************************************************)
(* One client sending commands in quick succession, each on a connection   *)
(* of its own, to the line-TCP daemon: the loop of TestTCPServer.          *)
(***************************************************************************)
FloodCommands == 100
PerIPLimit == 5
FloodLine == Input(PIN \o Sp \o BodyEcho, "plain", TRUE, 0, 0, 0, BodyEcho)

VARIABLES
    flood   \* the client: commands sent, replies read, reads that failed, whether it
            \* waits for a reply, the clock when it began, the last reply

NoFlood ==
    [sent |-> 0, replies |-> 0, refused |-> 0, waiting |-> FALSE, start |-> 0,
     reply |-> <<>>]

\* The commands are sent in less than UnitSecs seconds: two readings of the
\* clock (whole seconds) taken then differ by UnitSecs at most.
InFloodTime(now) == flood.sent = 0 \/ now - flood.start <= UnitSecs

\* net.Dial and clientConn.Write of one line; the daemon accepts and starts
\* the handler.
FloodDial ==
    /\ ~flood.waiting
    /\ flood.sent < FloodCommands
    /\ InFloodTime(clock)
    /\ conns["c1"].pc \in {"none", "closed"}
    /\ conns' = [conns EXCEPT !["c1"] =
                    [NoConnection EXCEPT !.pc = "admit", !.ip = "alice",
                                         !.unread = <<FloodLine>>, !.sent = <<FloodLine>>]]
    /\ flood' = [flood EXCEPT !.sent = @ + 1, !.waiting = TRUE,
                              !.start = IF flood.sent = 0 THEN clock ELSE @]
    /\ UNCHANGED <<rlVars, procVars>>

\* The client reads the reply, closes the connection and counts a success;
\* the handler's next ReadLine finds the connection closed.
FloodReadReply ==
    /\ flood.waiting
    /\ conns["c1"].pc = "read"
    /\ Len(conns["c1"].wrote) = 2
    /\ flood' = [flood EXCEPT !.replies = @ + 1, !.waiting = FALSE,
                              !.reply = conns["c1"].wrote[1]]
    /\ conns' = [conns EXCEPT !["c1"].pc = "closed"]
    /\ UNCHANGED <<rlVars, procVars>>

\* The handler has returned without a reply: the client's ReadLine fails and
\* it goes on with the next command.
FloodReadFails ==
    /\ flood.waiting
    /\ conns["c1"].pc = "closed"
    /\ flood' = [flood EXCEPT !.refused = @ + 1, !.waiting = FALSE]
    /\ UNCHANGED <<conns, rlVars, procVars>>

\* A second passes while the commands are sent.
FloodTick ==
    /\ flood.sent > 0
    /\ InFloodTime(clock + 1)
    /\ Tick
    /\ UNCHANGED <<flood, conns, procVars>>

(***************************************************************************)
(* Commands in datagrams: plainsocket StartAndBlockUDP and                 *)
(* HandleUDPConnection. The loop of the listener admits a datagram and     *)
(* starts a goroutine for it; the goroutine reads the lines of the packet. *)
(***************************************************************************)
\* The packets clients send: no line, one line, or several.
Packets ==
    {<<>>} \cup {<<l>> : l \in ConnLines} \cup {<<l1, l2>> : l1 \in ConnLines, l2 \in ConnLines}

VARIABLES
    udp     \* per datagram: the calls of rateLimit.Add made for it, and the datagrams
            \* written for it, each with the address it is sent to

NoDatagram == [adds |-> 0, out |-> <<>>]

\* ReadFromUDP returns a packet; if !daemon.rateLimit.Add(clientIP, true)
\* { continue }; go daemon.HandleUDPConnection(clientIP, clientAddr, clientPacket)
ReadFromUDP(c, ip, packet) ==
    /\ conns[c].pc = "none"
    /\ Add(ip, TRUE)
    /\ conns' = [conns EXCEPT ![c] =
                    [NoConnection EXCEPT !.pc = IF rlRet'.ret THEN "read" ELSE "closed",
                                         !.ip = ip, !.unread = packet, !.sent = packet]]
    /\ udp' = [udp EXCEPT ![c].adds = @ + 1]
    /\ UNCHANGED procVars

\* line, _, err := reader.ReadLine() with a line left in the packet.
UDPReadOneLine(c) ==
    /\ ReadOneLine(c)
    /\ UNCHANGED udp

\* ReadLine returns io.EOF: the handler returns.
UDPReadEnds(c) ==
    /\ ReadEnds(c)
    /\ UNCHANGED udp

\* if !daemon.rateLimit.Add(clientIP, true) { return }, for the line read.
UDPAdmitLine(c) ==
    /\ AdmitLine(c)
    /\ udp' = [udp EXCEPT ![c].adds = @ + 1]

\* result := daemon.Processor.Process(toolbox.Command{Content: string(line), ...})
UDPProcessLine(c, order) ==
    /\ ProcessLine(c, order)
    /\ UNCHANGED udp

\* daemon.udpListener.WriteToUDP([]byte(result.CombinedOutput), clientAddr)
WriteToUDPCombinedOutput(c) ==
    /\ WriteCombinedOutput(c)
    /\ udp' = [udp EXCEPT ![c].out =
                  Append(@, [to |-> conns[c].ip, bytes |-> calls[c].ret.CombinedOutput])]

\* daemon.udpListener.WriteToUDP([]byte("\r\n"), clientAddr), and round the loop.
WriteToUDPLineEnd(c) ==
    /\ WriteLineEnd(c)
    /\ udp' = [udp EXCEPT ![c].out = Append(@, [to |-> conns[c].ip, bytes |-> LineEnd])]

\* WriteToUDP returns an error: the handler returns.
WriteToUDPFails(c) ==
    /\ conns[c].pc \in {"write", "writeEnd"}
    /\ conns' = [conns EXCEPT ![c].pc = "closed"]
    /\ calls' = [calls EXCEPT ![c] = IdleCall]
    /\ UNCHANGED <<rlVars, udp, EmergencyLockDown, CommandFilters, ResultFilters,
                   LookupByTrigger, configured>>

(***************************************************************************)
(* The HTTP daemon: httpd Initialise installs every handler behind         *)
(* Middleware with a limiter of its own.                                   *)
(***************************************************************************)
DirectoryHandlerRateLimitFactor == 10
RateLimitIntervalSec == 10
\* The largest BaseRateLimit configured.
MaxBaseRateLimit == 1
\* The clock runs into a second interval of the limiters.
MaxWebTime == 2 * RateLimitIntervalSec
\* The clients of the HTTP daemon.
WebClients == {"alice"}

\* The routes: a served directory and a special handler.
Endpoints == {"/dir/", "/cmd"}
\* The largest handler.GetRateLimitFactor() of a special handler.
MaxFactor == 1
\* The factor of a route, f being the one of the special handler.
Factor(e, f) == IF e = "/dir/" THEN DirectoryHandlerRateLimitFactor ELSE f

StatusOK == "200 OK"
StatusTooManyRequests == "429 Too Many Requests"
\* What the handler behind the middleware may answer with.
HandlerStatuses == {"200 OK", "404 Not Found"}

\* A limiter as a value: &misc.RateLimit{UnitSecs: ..., MaxCount: ...} after Initialise.
NewRateLimit(unit, max) ==
    [UnitSecs |-> unit, MaxCount |-> max, lastTimestamp |-> 0, counter |-> EmptyMap,
     logged |-> {}]

\* limit.Add(actor, logIfLimitHit) at time now: the limiter afterwards and the
\* value returned.
AddTo(limit, now, actor, logIfLimitHit) ==
    LET reset == ShouldReset(now, limit.lastTimestamp, limit.UnitSecs)
        w == IF reset
             THEN [limit EXCEPT !.counter = EmptyMap, !.logged = {}, !.lastTimestamp = now]
             ELSE limit
        exists == actor \in DOMAIN w.counter
        count == IF exists THEN w.counter[actor] ELSE 0
    IN IF exists /\ LimitHit(count, w.MaxCount)
       THEN [limit |-> IF ShouldLog(w.logged, actor, logIfLimitHit)
                       THEN [w EXCEPT !.logged = @ \cup {actor}] ELSE w,
             ret |-> FALSE]
       ELSE [limit |-> [w EXCEPT !.counter = Put(@, actor, count + 1)], ret |-> TRUE]

\* daemon.AllRateLimits as Initialise leaves it.
AllRateLimits(base, f) ==
    [e \in Endpoints |-> NewRateLimit(RateLimitIntervalSec, Factor(e, f) * base)]

VARIABLES
    web     \* the HTTP daemon: its limiters, the clock, requests served, the last
            \* request and its response, and the outcomes seen so far

NoRequest == [endpoint |-> "none", ip |-> "none", outcome |-> "none", status |-> "none",
              body |-> <<>>, next |-> 0]
NoWeb == [base |-> 0, factor |-> 0, limits |-> <<>>, now |-> 0, served |-> 0, last |-> NoRequest, seen |-> {}]

\* The function Middleware returns, called with a request from ip at time now:
\* the limiter afterwards, the response, and the calls of next.
MiddlewareLimitFirst(ratelimit, now, lockdown, ip, handlerStatus) ==
    LET r == AddTo(ratelimit, now, ip, TRUE)
    IN IF lockdown
       THEN [limit |-> r.limit, outcome |-> "lockdown", status |-> StatusOK,
             body |-> TextEmergencyLockDown, next |-> 0]
       ELSE IF r.ret
            THEN [limit |-> r.limit, outcome |-> "handled", status |-> handlerStatus,
                  body |-> <<>>, next |-> 1]
            ELSE [limit |-> r.limit, outcome |-> "refused", status |-> StatusTooManyRequests,
                  body |-> <<"\n">>, next |-> 0]
Middleware(ratelimit, now, lockdown, ip, handlerStatus) ==
    IF lockdown
    THEN [limit |-> ratelimit, outcome |-> "lockdown", status |-> StatusOK,
          body |-> TextEmergencyLockDown, next |-> 0]
    ELSE LET r == AddTo(ratelimit, now, ip, TRUE)
         IN IF r.ret
            THEN [limit |-> r.limit, outcome |-> "handled", status |-> handlerStatus,
                  body |-> <<>>, next |-> 1]
            ELSE [limit |-> r.limit, outcome |-> "refused", status |-> StatusTooManyRequests,
                  body |-> <<"\n">>, next |-> 0]

\* The server routes a request from ip to the endpoint's handler.
ServeHTTP(e, ip, handlerStatus) ==
    /\ web.base > 0
    /\ LET m == Middleware(web.limits[e], web.now, EmergencyLockDown, ip, handlerStatus)
       IN web' = [web EXCEPT !.limits[e] = m.limit,
                             !.served = (@ + 1) % 2,
                             !.last = [endpoint |-> e, ip |-> ip, outcome |-> m.outcome,
                                       status |-> m.status, body |-> m.body, next |-> m.next],
                             !.seen = @ \cup {m.outcome}]

\* An interval of the limiters passes.
WebTick ==
    /\ web.base > 0
    /\ web.now + RateLimitIntervalSec <= MaxWebTime
    /\ web' = [web EXCEPT !.now = @ + RateLimitIntervalSec]

(***************************************************************************)
(* The chat bot's messages: telegrambot ProcessMessages, called by the     *)
(* polling loop with every batch of updates; each command runs in a        *)
(* goroutine of its own.                                                   *)
(***************************************************************************)
ChatTypePrivate == "private"
PollIntervalSec == 5
\* The largest RateLimit configured.
MaxBotRateLimit == 1
\* The most updates in one batch.
MaxBatch == 2
\* misc.StartupTime.Unix(), and the clock running into a second interval of the
\* limiter.
StartupTime == PollIntervalSec
MaxChatTime == 2 * PollIntervalSec

TextStart == <<"/", "s", "t", "a", "r", "t">>
TextStartUpper == <<"/", "S", "T", "A", "R", "T">>
TextRateLimited == <<"r", "a", "t", "e", " ", "l", "i", "m", "i", "t", "e", "d">>

\* An update: who sent it, in which chat, when, and its text.
APIUpdate(from, chatUser, chatID, chatType, timestamp, input) ==
    [From |-> from, ChatUserName |-> chatUser, ChatID |-> chatID, ChatType |-> chatType,
     Timestamp |-> timestamp, input |-> input]
\* The messages users send: a command, a command sent before the daemon started,
\* a command in a group chat, "/start", "/START", and "/start" of a group chat
\* sent before the daemon started.
UpdatesOf(from, chatUser, chatID) ==
    {APIUpdate(from, chatUser, chatID, ChatTypePrivate, StartupTime, FloodLine),
     APIUpdate(from, chatUser, chatID, ChatTypePrivate, StartupTime - 1, FloodLine),
     APIUpdate(from, chatUser, chatID, "group", StartupTime, FloodLine),
     APIUpdate(from, chatUser, chatID, ChatTypePrivate, StartupTime,
               Input(TextStart, "plain", FALSE, 0, 0, 0, TextStart)),
     APIUpdate(from, chatUser, chatID, ChatTypePrivate, StartupTime,
               Input(TextStartUpper, "plain", FALSE, 0, 0, 0, TextStartUpper)),
     APIUpdate(from, chatUser, chatID, "group", StartupTime - 1,
               Input(TextStart, "plain", FALSE, 0, 0, 0, TextStart))}
\* From a user with a name, and commands from one without, in a chat that has
\* one.
APIUpdates ==
    UpdatesOf("alice", "carol", 1)
    \cup {u \in UpdatesOf("", "bob", 2) : u.input = FloodLine /\ u.ChatType = ChatTypePrivate}
Batches == UNION {[1..n -> APIUpdates] : n \in 0..MaxBatch}

\* origin := ding.Message.From.UserName; if origin == "" { origin = Chat.UserName }
Origin(u) == IF u.From = "" THEN u.ChatUserName ELSE u.From

\* One round of the loop of ProcessMessages: the limiter afterwards and what
\* becomes of the update.
HandleUpdateStartupFirst(limit, now, u) ==
    IF u.Timestamp < StartupTime
    THEN [limit |-> limit, outcome |-> "before startup"]
    ELSE LET r == AddTo(limit, now, Origin(u), TRUE)
         IN [limit |-> r.limit,
             outcome |-> IF ~r.ret THEN "rate limited"
                         ELSE IF u.ChatType # ChatTypePrivate THEN "not private"
                         ELSE IF u.input.cmd.Content = TextStart THEN "start"
                         ELSE "go"]
HandleUpdate(limit, now, u) ==
    LET r == AddTo(limit, now, Origin(u), TRUE)
    IN [limit |-> r.limit,
        outcome |-> IF ~r.ret THEN "rate limited"
                    ELSE IF u.Timestamp < StartupTime THEN "before startup"
                    ELSE IF u.ChatType # ChatTypePrivate THEN "not private"
                    ELSE IF u.input.cmd.Content = TextStart THEN "start"
                    ELSE "go"]

\* The loop of ProcessMessages over the updates from the i-th on: the limiter
\* afterwards and the outcomes.
RECURSIVE HandleUpdates(_, _, _, _)
HandleUpdates(limit, now, updates, i) ==
    IF i > Len(updates)
    THEN [limit |-> limit, outcomes |-> <<>>]
    ELSE LET h == HandleUpdate(limit, now, updates[i])
             rest == HandleUpdates(h.limit, now, updates, i + 1)
         IN [limit |-> rest.limit, outcomes |-> <<h.outcome>> \o rest.outcomes]

VARIABLES
    chat    \* the bot: userRateLimit, the clock, messageOffset, the last batch with its
            \* outcomes, the replies sent for it, and the goroutines started for it

NoChat ==
    [limit |-> NewRateLimit(0, 0), now |-> 0, polls |-> 0, messageOffset |-> 0,
     batch |-> <<>>, outcomes |-> <<>>, replies |-> <<>>, handed |-> {}, pending |-> {},
     running |-> [c \in Callers |-> 0]]

\* bot.ReplyTo(ding.Message.Chat.ID, text), for the i-th update of the batch.
ReplyTo(batch, i, text) == [update |-> i, to |-> batch[i].ChatID, text |-> text]

\* ProcessMessages(updates). The poll that fetches the next batch follows the
\* goroutines of this one here.
ProcessMessages(updates) ==
    /\ chat.limit.MaxCount > 0
    /\ chat.pending = {}
    /\ \A c \in Callers : chat.running[c] = 0
    /\ LET h == HandleUpdates(chat.limit, chat.now, updates, 1)
           is(outcome) == {i \in 1..Len(updates) : h.outcomes[i] = outcome}
           limited == SelectSeq([i \in 1..Len(updates) |-> i],
                                LAMBDA i : h.outcomes[i] = "rate limited")
       IN chat' = [chat EXCEPT !.limit = h.limit,
                               !.polls = (@ + 1) % 2,
                               !.messageOffset = IF @ <= Len(updates) THEN Len(updates) + 1 ELSE @,
                               !.batch = updates,
                               !.outcomes = h.outcomes,
                               !.replies = [k \in 1..Len(limited) |->
                                               ReplyTo(updates, limited[k], TextRateLimited)],
                               !.handed = is("go"),
                               !.pending = is("go")]

\* A goroutine started for the i-th update: bot.Processor.Process.
ChatProcess(c, i, order) ==
    /\ i \in chat.pending
    /\ chat.running[c] = 0
    /\ Process(c, chat.batch[i].input, order)
    /\ chat' = [chat EXCEPT !.pending = @ \ {i}, !.running[c] = i]

\* The goroutine replies with result.CombinedOutput and ends.
ChatReply(c) ==
    /\ chat.running[c] # 0
    /\ chat' = [chat EXCEPT !.running[c] = 0,
                            !.replies = Append(@, ReplyTo(chat.batch, chat.running[c],
                                                          calls[c].ret.CombinedOutput))]
    /\ Deliver(c)

\* An interval of the limiter passes.
ChatTick ==
    /\ chat.limit.MaxCount > 0
    /\ chat.now + PollIntervalSec <= MaxChatTime
    /\ chat' = [chat EXCEPT !.now = @ + PollIntervalSec]

(***************************************************************************)
(* DNS packets: dnsd RespondWith0 and ExtractDomainName. A packet is a     *)
(* sequence of bytes, a Go string the sequence of its bytes.               *)
(***************************************************************************)
MinNameQuerySize == 14
StandardResponseNoError == <<129, 128>>
\*                   Domain    A     IN    TTL 1466      IPv4  0.0.0.0
BlackHoleAnswer == <<192, 12, 0, 1, 0, 1, 0, 0, 5, 186, 0, 4, 0, 0, 0, 0>>
TypeAClassIN == <<0, 1, 0, 1>>
TypeAAAAClassIN == <<0, 28, 0, 1>>
FullStop == 46

Letters == <<"a", "b", "c", "d", "e", "f", "g", "h", "i", "j", "k", "l", "m", "n", "o", "p",
             "q", "r", "s", "t", "u", "v", "w", "x", "y", "z">>
\* The byte of a character of a name: a lower-case letter or a full stop.
ByteOf(ch) == IF ch = "." THEN FullStop ELSE 96 + (CHOOSE i \in 1..26 : Letters[i] = ch)
\* []byte(s)
BytesOf(s) == [i \in 1..Len(s) |-> ByteOf(s[i])]

\* copy(dst[at:], src), at counted from 0: as many bytes as fit.
Copy(dst, at, src) ==
    [i \in 1..Len(dst) |-> IF i > at /\ i - at <= Len(src) THEN src[i - at] ELSE dst[i]]

\* bytes.Index(s, sep), strings.IndexRune(s, r): counted from 0, -1 if absent.
BytesIndex(s, sep) ==
    LET at == {i \in 0..(Len(s) - Len(sep)) : SubSeq(s, i + 1, i + Len(sep)) = sep}
    IN IF at = {} THEN -1 ELSE MinOf(at)

\* RespondWith0(queryNoLength)
RespondWith0KeepCounts(queryNoLength) ==
    IF Len(queryNoLength) < MinNameQuerySize
    THEN <<>>
    ELSE LET n == 2 + 2 + Len(queryNoLength) - 4 + Len(BlackHoleAnswer)
             made == [i \in 1..n |-> 0]
             withID == [made EXCEPT ![1] = queryNoLength[1], ![2] = queryNoLength[2]]
             withFlags == Copy(withID, 2, StandardResponseNoError)
             withQuery == Copy(withFlags, 4, SubSeq(queryNoLength, 5, Len(queryNoLength)))
         IN Copy(withQuery, n - Len(BlackHoleAnswer), BlackHoleAnswer)
RespondWith0(queryNoLength) ==
    IF Len(queryNoLength) < MinNameQuerySize
    THEN <<>>
    ELSE LET n == 2 + 2 + Len(queryNoLength) - 4 + Len(BlackHoleAnswer)
             made == [i \in 1..n |-> 0]
             withID == [made EXCEPT ![1] = queryNoLength[1], ![2] = queryNoLength[2]]
             withFlags == Copy(withID, 2, StandardResponseNoError)
             withQuery == Copy(withFlags, 4, SubSeq(queryNoLength, 5, Len(queryNoLength)))
             withCount == [withQuery EXCEPT ![7] = 0, ![8] = 1]
         IN Copy(withCount, n - Len(BlackHoleAnswer), BlackHoleAnswer)

\* The bytes ExtractDomainName takes for the lengths of labels.
RestoreFullStop(b) ==
    IF b <= 44 \/ (b >= 58 /\ b <= 64) \/ (b >= 91 /\ b <= 96) THEN FullStop ELSE b

\* The loop of ExtractDomainName: the names with leading components removed.
RECURSIVE LeadingRemoved(_)
LeadingRemoved(domainName) ==
    LET index == BytesIndex(domainName, <<FullStop>>)
    IN IF index < 1 \/ index = Len(domainName) - 1
       THEN <<>>
       ELSE LET rest == SubSeq(domainName, index + 2, Len(domainName))
            IN <<rest>> \o LeadingRemoved(rest)

\* ExtractDomainName(packet)
ExtractDomainName(packet) ==
    IF Len(packet) < MinNameQuerySize
    THEN <<>>
    ELSE LET rel == BytesIndex(SubSeq(packet, 14, Len(packet)), TypeAClassIN)
         IN IF rel < 1
            THEN <<>>
            ELSE LET domainName == [i \in 1..(rel - 1) |-> RestoreFullStop(packet[13 + i])]
                 IN IF Len(domainName) > 1024
                    THEN <<>>
                    ELSE <<domainName>> \o LeadingRemoved(domainName)

\* The question of a query for a name given by its labels.
RECURSIVE Labels(_)
Labels(labels) ==
    IF labels = <<>> THEN <<0>>
    ELSE <<Len(Head(labels))>> \o BytesOf(Head(labels)) \o Labels(Tail(labels))
\* A query: transaction ID, flags, the four counts, the question.
Query(id, counts, labels, typeClass) == id \o <<1, 0>> \o counts \o Labels(labels) \o typeClass

A == <<"a">>
B == <<"b">>
Github == <<"g", "i", "t", "h", "u", "b">>
Com == <<"c", "o", "m">>
\* The names asked for: a.b.github.com and the names it ends with.
QueryNames == {<<A, B, Github, Com>>, <<B, Github, Com>>, <<Github, Com>>, <<Com>>}
QueryIDs == {<<0, 0>>, <<18, 52>>, <<255, 255>>}
QueryCounts == {<<0, 1, 0, 0, 0, 0, 0, 0>>, <<0, 1, 0, 3, 0, 0, 0, 1>>}
\* The queries received, of type A and of type AAAA.
DNSQueries ==
    {Query(id, counts, labels, tc) : id \in QueryIDs, counts \in QueryCounts,
                                     labels \in QueryNames, tc \in {TypeAClassIN, TypeAAAAClassIN}}
\* Packets cut short, to MinNameQuerySize bytes and fewer, and nil.
CutPackets ==
    {SubSeq(Query(id, <<0, 1, 0, 0, 0, 0, 0, 0>>, <<A, Com>>, TypeAClassIN), 1, n) :
        id \in QueryIDs, n \in {0, 1, MinNameQuerySize - 1, MinNameQuerySize}}
DNSPackets == DNSQueries \cup CutPackets

VARIABLES
    dns     \* the packet last handled, the answer made for it and the names taken from it

NoDNS == [called |-> "none", query |-> <<>>, labels |-> <<>>, typeClass |-> <<>>,
          answer |-> <<>>, names |-> <<>>]

\* A query of type typeClass for the name with these labels arrives and is
\* answered with RespondWith0.
CallRespondWith0(packet) ==
    dns' = [NoDNS EXCEPT !.called = "RespondWith0", !.query = packet,
                         !.answer = RespondWith0(packet)]

\* The names of a query are taken with ExtractDomainName.
CallExtractDomainName(id, counts, labels, typeClass) ==
    dns' = [NoDNS EXCEPT !.called = "ExtractDomainName",
                         !.query = Query(id, counts, labels, typeClass),
                         !.labels = labels, !.typeClass = typeClass,
                         !.names = ExtractDomainName(Query(id, counts, labels, typeClass))]

\* ExtractDomainName is given a packet that is no whole query.
CallExtractDomainNameOfPacket(packet) ==
    dns' = [NoDNS EXCEPT !.called = "ExtractDomainName", !.query = packet,
                         !.names = ExtractDomainName(packet)]

(***************************************************************************)
(* The blacklist of the DNS daemon: dnsd UpdatedAdBlockLists, run at start *)
(* and at every BlacklistUpdateIntervalSec.                                *)
(***************************************************************************)
\* The names the two lists of ad servers may hold.
AdNames == {"ads.example", "track.example", "pgl.example"}
\* What GetAdBlacklistPGL and GetAdBlacklistMVPS return: an error, or the names
\* of the list.
Fetched(err, entries) == [err |-> err, entries |-> entries]
FetchResults ==
    {Fetched("failed", {})} \cup {Fetched("nil", names) : names \in SUBSET AdNames}

VARIABLES
    adblock \* daemon.blackList, what it was before the last refresh, and what the
            \* two fetches of that refresh returned

NoAdBlock == [blackList |-> {}, previous |-> {}, refreshed |-> FALSE,
              pgl |-> Fetched("nil", {}), mvps |-> Fetched("nil", {})]

\* The blacklist UpdatedAdBlockLists leaves, made under blackListMutex.
BlackListFrom(old, pgl, mvps) ==
    LET made == {}
        withPGL == IF pgl.err = "nil" THEN made \cup pgl.entries ELSE made
    IN IF mvps.err = "nil" THEN withPGL \cup mvps.entries ELSE withPGL

\* UpdatedAdBlockLists(), the two fetches returning pgl and mvps.
UpdatedAdBlockLists(pgl, mvps) ==
    adblock' = [blackList |-> BlackListFrom(adblock.blackList, pgl, mvps),
                previous |-> adblock.blackList, refreshed |-> TRUE,
                pgl |-> pgl, mvps |-> mvps]

(***************************************************************************)
(* The DNS daemon's Initialise.                                            *)
(***************************************************************************)
NumQueueRatio == 10

\* A configuration of the daemon, as read from the JSON file.
DNSDConfig(address, allow, perIPLimit, udpPort, udpForwarder, tcpPort, tcpForwarder) ==
    [Address |-> address, AllowQueryIPPrefixes |-> allow, PerIPLimit |-> perIPLimit,
     UDPPort |-> udpPort, UDPForwarder |-> udpForwarder, TCPPort |-> tcpPort,
     TCPForwarder |-> tcpForwarder]
ForwarderLists == {<<>>, <<"8.8.8.8:53">>, <<"8.8.8.8:53", "8.8.4.4:53">>}
DNSDConfigs ==
    {DNSDConfig(address, allow, perIPLimit, udpPort, udpForwarder, tcpPort, tcpForwarder) :
        address \in {"", "0.0.0.0"}, allow \in {<<>>, <<"">>, <<"192.">>},
        perIPLimit \in {9, 10, 30}, udpPort \in {0, 53}, udpForwarder \in ForwarderLists,
        tcpPort \in {0, 53}, tcpForwarder \in ForwarderLists}

\* What a call of Initialise comes to: the error returned ("nil" for none), or
\* a panic; the queues made and the prefixes allowed.
Initialised(ret, numQueues, allow) == [ret |-> ret, numQueues |-> numQueues, allow |-> allow]

\* The number of queues made for UDP: PerIPLimit / NumQueueRatio, and one for
\* each forwarder at least.
NumQueues(cfg) ==
    IF cfg.PerIPLimit \div NumQueueRatio < Len(cfg.UDPForwarder)
    THEN Len(cfg.UDPForwarder)
    ELSE cfg.PerIPLimit \div NumQueueRatio

\* allowMyPublicIP: the public IP, if one is found and not yet allowed.
AllowMyPublicIP(allow, latestIP) ==
    IF latestIP = "" \/ \E i \in 1..Len(allow) : allow[i] = latestIP
    THEN allow
    ELSE Append(allow, latestIP)

\* Initialise() on configuration cfg; dialled tells whether the forwarders'
\* addresses resolve and can be dialled.
DNSDInitialise(cfg, dialled, latestIP) ==
    IF cfg.Address = "" THEN Initialised("listen address must not be empty", 0, cfg.AllowQueryIPPrefixes)
    ELSE IF cfg.UDPPort < 1 /\ cfg.TCPPort < 1
    THEN Initialised("either or both TCP and UDP ports must be specified", 0, cfg.AllowQueryIPPrefixes)
    ELSE IF Len(cfg.UDPForwarder) = 0 /\ Len(cfg.TCPForwarder) = 0
    THEN Initialised("there must be at least one UDP or TCP forwarder address", 0, cfg.AllowQueryIPPrefixes)
    ELSE IF cfg.PerIPLimit < 10
    THEN Initialised("PerIPLimit must be greater than 9", 0, cfg.AllowQueryIPPrefixes)
    ELSE IF Len(cfg.AllowQueryIPPrefixes) = 0
    THEN Initialised("allowable IP prefixes list must not be empty", 0, cfg.AllowQueryIPPrefixes)
    ELSE IF \E i \in 1..Len(cfg.AllowQueryIPPrefixes) : cfg.AllowQueryIPPrefixes[i] = ""
    THEN Initialised("any allowable IP prefixes must not be empty string", 0, cfg.AllowQueryIPPrefixes)
    ELSE LET allow == cfg.AllowQueryIPPrefixes \o <<"127.", "::1">>
         IN IF cfg.UDPPort > 0 /\ NumQueues(cfg) > 0 /\ Len(cfg.UDPForwarder) = 0
            THEN \* daemon.UDPForwarder[i%len(daemon.UDPForwarder)]: integer divide by zero
                 Initialised("panic", 0, allow)
            ELSE IF cfg.UDPPort > 0 /\ NumQueues(cfg) > 0 /\ ~dialled
            THEN Initialised("failed to connect to UDP forwarder", 0, allow)
            ELSE Initialised("nil", IF cfg.UDPPort > 0 THEN NumQueues(cfg) ELSE 0,
                             AllowMyPublicIP(allow, latestIP))

VARIABLES
    dnsd    \* the DNS daemon: its configuration and what Initialise came to

NoDNSD == [called |-> FALSE, cfg |-> DNSDConfig("", <<>>, 0, 0, <<>>, 0, <<>>),
           got |-> Initialised("nil", 0, <<>>)]

CallDNSDInitialise(cfg, dialled, latestIP) ==
    /\ ~dnsd.called
    /\ dnsd' = [called |-> TRUE, cfg |-> cfg, got |-> DNSDInitialise(cfg, dialled, latestIP)]

(***************************************************************************)
(* The DNS daemon's StartAndBlock and Stop: a goroutine per listener, the  *)
(* caller waiting for what they return. The listeners' loops are those of  *)
(* the socket daemons: listen, register the listener with the daemon, serve *)
(* until an error, and close the listener on the way out.                  *)
(***************************************************************************)
Protocols == {"udp", "tcp"}

VARIABLES
    dnsrun  \* the caller of StartAndBlock, errChan, and for each protocol its
            \* goroutine, the socket it listens on and the listener the daemon holds

IdleListener == [pc |-> "none", open |-> FALSE, registered |-> FALSE, err |-> "none"]
NoDNSRun ==
    [served |-> {}, pc |-> "idle", received |-> 0, ret |-> "none", errChan |-> <<>>,
     listener |-> [p \in Protocols |-> IdleListener]]

\* StartAndBlock up to its loop: a goroutine for every port served.
DNSStartAndBlock ==
    /\ dnsrun.pc = "idle"
    /\ dnsrun.served # {}
    /\ dnsrun' = [dnsrun EXCEPT !.pc = "wait",
                                !.listener = [p \in Protocols |->
                                                 IF p \in dnsrun.served
                                                 THEN [IdleListener EXCEPT !.pc = "start"]
                                                 ELSE IdleListener]]

\* err := daemon.StartAndBlockUDP() (or TCP): listening fails; errChan <- err
DNSListenFails(p) ==
    /\ dnsrun.listener[p].pc = "start"
    /\ dnsrun' = [dnsrun EXCEPT !.listener[p].pc = "done",
                                !.listener[p].err = "failed to listen",
                                !.errChan = Append(@, "failed to listen")]

\* The goroutine listens.
DNSListen(p) ==
    /\ dnsrun.listener[p].pc = "start"
    /\ dnsrun' = [dnsrun EXCEPT !.listener[p].pc = "listening", !.listener[p].open = TRUE]

\* The goroutine registers its listener with the daemon and enters its loop.
DNSRegister(p) ==
    /\ dnsrun.listener[p].pc = "listening"
    /\ dnsrun' = [dnsrun EXCEPT !.listener[p].pc = "serve", !.listener[p].registered = TRUE]

\* Reading from the listener fails while it is open: the loop returns the
\* error and the listener is closed on the way out; errChan <- err
DNSServeFails(p) ==
    /\ dnsrun.listener[p].pc = "serve"
    /\ dnsrun.listener[p].open
    /\ dnsrun' = [dnsrun EXCEPT !.listener[p].pc = "done", !.listener[p].open = FALSE,
                                !.listener[p].err = "failed to accept",
                                !.errChan = Append(@, "failed to accept")]

\* Reading from the closed listener: the loop returns nil; errChan <- err
DNSServeEnds(p) ==
    /\ dnsrun.listener[p].pc = "serve"
    /\ ~dnsrun.listener[p].open
    /\ dnsrun' = [dnsrun EXCEPT !.listener[p].pc = "done", !.listener[p].err = "nil",
                                !.errChan = Append(@, "nil")]

\* Stop(): the listeners the daemon holds are closed.
StopListeners(listener) ==
    [p \in Protocols |-> IF listener[p].registered
                         THEN [listener[p] EXCEPT !.open = FALSE]
                         ELSE listener[p]]

\* One round of the loop of StartAndBlock: err := <-errChan; with an error,
\* daemon.Stop() and return err; after the last listener, return nil.
DNSReceive ==
    /\ dnsrun.pc = "wait"
    /\ dnsrun.errChan # <<>>
    /\ LET err == Head(dnsrun.errChan)
       IN IF err # "nil"
          THEN dnsrun' = [dnsrun EXCEPT !.errChan = Tail(@), !.pc = "returned", !.ret = err,
                                        !.listener = StopListeners(@)]
          ELSE dnsrun' = [dnsrun EXCEPT !.errChan = Tail(@), !.received = @ + 1,
                                        !.pc = IF dnsrun.received + 1 = Cardinality(dnsrun.served)
                                               THEN "returned" ELSE "wait",
                                        !.ret = IF dnsrun.received + 1 = Cardinality(dnsrun.served)
                                                THEN "nil" ELSE @]

\* Somebody calls Stop().
DNSStop ==
    /\ dnsrun.pc # "idle"
    /\ dnsrun.listener # StopListeners(dnsrun.listener)
    /\ dnsrun' = [dnsrun EXCEPT !.listener = StopListeners(@)]

(***************************************************************************)
(* The encrypted UDP relay: sockd UDPTable, HandleUDPConnection and        *)
(* PipeUDPConnection, for the packets of one client address. Every packet  *)
(* admitted is handled by a goroutine of its own.                          *)
(***************************************************************************)
\* The sockets made for the client in one run.
MaxSockets == 3

VARIABLES
    relay   \* udpTable's entry for the client (0 for none), the sockets made and
            \* those open, the relay tasks, and the handlers of the packets

IdleHandler == [pc |-> "idle", udpClient |-> 0, found |-> FALSE]
NoRelay ==
    [table |-> 0, made |-> 0, open |-> {}, pipes |-> [s \in {} |-> "run"],
     handler |-> [h \in Callers |-> IdleHandler]]

\* UDPTable.Get(clientID), under the table's mutex: the entry, made if need be.
Get(table, made) ==
    IF table # 0
    THEN [table |-> table, made |-> made, conn |-> table, found |-> TRUE]
    ELSE [table |-> made + 1, made |-> made + 1, conn |-> made + 1, found |-> FALSE]

\* UDPTable.Delete(clientID), under the table's mutex: the entry removed, if any.
Delete(table) == [table |-> 0, conn |-> table]

\* HandleUDPConnection: the packet's header is not understood; a random reply
\* is written and the handler returns.
RelayWriteRand(h) ==
    /\ relay.handler[h].pc = "idle"
    /\ relay' = [relay EXCEPT !.handler[h].pc = "rejected"]

\* The handler has returned.
RelayReturn(h) ==
    /\ relay.handler[h].pc = "rejected"
    /\ relay' = [relay EXCEPT !.handler[h] = IdleHandler]

\* udpClient, found, err := sock.udpTable.Get(clientAddr.String())
RelayGet(h) ==
    /\ relay.handler[h].pc = "idle"
    /\ relay.table # 0 \/ relay.made < MaxSockets
    /\ LET g == Get(relay.table, relay.made)
       IN relay' = [relay EXCEPT !.table = g.table, !.made = g.made,
                                 !.open = IF g.found THEN @ ELSE @ \cup {g.conn},
                                 !.handler[h] = [pc |-> "got", udpClient |-> g.conn,
                                                 found |-> g.found]]

\* net.ListenPacket fails in Get: the handler returns.
RelayGetFails(h) ==
    /\ relay.handler[h].pc = "idle"
    /\ relay.table = 0
    /\ relay' = [relay EXCEPT !.handler[h].pc = "rejected"]

\* if !found { go func() { sock.PipeUDPConnection(...); sock.udpTable.Delete(...) }() }
RelayStartPipe(h) ==
    /\ relay.handler[h].pc = "got"
    /\ relay' = [relay EXCEPT !.handler[h].pc = "write",
                              !.pipes = IF relay.handler[h].found THEN @
                                        ELSE Put(@, relay.handler[h].udpClient, "run")]

\* udpClient.WriteTo(packet[packetLen:n], destAddr) succeeds.
RelayWriteTo(h) ==
    /\ relay.handler[h].pc = "write"
    /\ relay.handler[h].udpClient \in relay.open
    /\ relay' = [relay EXCEPT !.handler[h] = IdleHandler]

\* WriteTo fails: if conn := sock.udpTable.Delete(...); conn != nil { conn.Close() }
RelayWriteToFails(h) ==
    /\ relay.handler[h].pc = "write"
    /\ LET d == Delete(relay.table)
       IN relay' = [relay EXCEPT !.table = d.table, !.open = @ \ {d.conn},
                                 !.handler[h] = IdleHandler]

\* PipeUDPConnection: client.ReadFrom fails, by the deadline or on a closed
\* socket; the function returns and its defer closes the socket.
PipeReturns(s) ==
    /\ s \in DOMAIN relay.pipes
    /\ relay.pipes[s] = "run"
    /\ relay' = [relay EXCEPT !.pipes[s] = "returned", !.open = @ \ {s}]

\* The relay task's last statement: sock.udpTable.Delete(clientAddr.String())
PipeDelete(s) ==
    /\ s \in DOMAIN relay.pipes
    /\ relay.pipes[s] = "returned"
    /\ relay' = [relay EXCEPT !.table = Delete(relay.table).table,
                              !.pipes = [x \in DOMAIN relay.pipes \ {s} |-> relay.pipes[x]]]

(***************************************************************************)
(* The encrypted UDP relay, one datagram at a time: UDPCipherConnection's  *)
(* ReadFrom, the loop of StartAndBlockUDP and the address header that      *)
(* HandleUDPConnection decodes. A payload is a sequence of bytes.          *)
(***************************************************************************)
\* The cipher's IV length (16 for AES-128-CFB), kept short here.
IVLength == 2
\* The cipher and the constants of the address header are declared in files
\* of package sockd that are not part of the sources at hand.
MaxPacketSize == 9038
AddressTypeMask == 15
AddressTypeIPv4 == 1
AddressTypeDM == 3
AddressTypeIPv6 == 4
DMAddrLengthIndex == 1
DMAddrHeaderLength == 2
\* UDPIPv4PacketLength = 1 + IPv4PacketLength and UDPIPv6PacketLength =
\* 1 + IPv6PacketLength: the type, the address and two bytes of port.
UDPIPv4PacketLength == 7
UDPIPv6PacketLength == 19
DMHeaderLength == 4

\* A stream cipher: byte i of the data is shifted by a key stream that
\* starts from the IV.
KeyStream(iv, i) == (iv[1] + i) % 256
Encrypt(iv, b) == [i \in 1..Len(b) |-> (b[i] + KeyStream(iv, i)) % 256]
Decrypt(iv, b) == [i \in 1..Len(b) |-> (b[i] + 256 - KeyStream(iv, i)) % 256]

\* packetBuf := make([]byte, MaxPacketSize) after ReadFrom has decrypted n
\* bytes into it: byte i (from 0) of the buffer, and the slice buffer[a:b].
BufferAt(payload, i) == IF i < Len(payload) THEN payload[i + 1] ELSE 0
BufferSlice(payload, a, b) == [k \in 1..(b - a) |-> BufferAt(payload, a + k - 1)]

\* The headers and payloads tried: a header, some data, cut at every length.
Header4 == <<1, 10, 0, 0, 1, 0, 53>>
Header4Masked == <<17, 10, 0, 0, 1, 0, 53>>
Header6 == <<4, 32, 1, 13, 184, 0, 0, 0, 0, 0, 0, 0, 0, 0, 0, 0, 1, 0, 53>>
HeaderDM == <<3, 3, 97, 46, 98, 0, 53>>
HeaderDMNul == <<3, 3, 97, 0, 98, 0, 53>>
HeaderDMLong == <<3, 200, 97, 46, 98, 0, 53>>
HeaderUnknown == <<2, 10, 0, 0, 1, 0, 53>>
RelayHeaders == {Header4, Header4Masked, Header6, HeaderDM, HeaderDMNul, HeaderDMLong, HeaderUnknown}
RelayData == {<<>>, <<7>>}
RelayPayloads ==
    {SubSeq(h \o d, 1, n) : <<h, d, n>> \in
        {x \in RelayHeaders \X RelayData \X (0..20) : x[3] <= Len(x[1] \o x[2])}}
RelayIVs == {[i \in 1..IVLength |-> 4 + i]}
RelayDatagrams ==
    {iv \o Encrypt(iv, p) : <<iv, p>> \in RelayIVs \X RelayPayloads}
        \cup {SubSeq(iv, 1, n) : <<iv, n>> \in RelayIVs \X (0..(IVLength - 1))}

VARIABLES
    sockd   \* one round of the loop of StartAndBlockUDP and the handler it starts

NoSockd ==
    [pc |-> "idle", datagram |-> <<>>, err |-> "nil", packet |-> <<>>, n |-> 0, packetLen |-> 0,
     decoys |-> 0, logged |-> 0, backlog |-> FALSE, nat |-> FALSE, upstream |-> <<>>,
     sent |-> FALSE, panic |-> FALSE]

\* conn.PacketConn.ReadFrom(buf) returns a datagram of the client.
SockdReceive(d) ==
    /\ sockd.pc \in {"idle", "dropped", "done"}
    /\ sockd' = [NoSockd EXCEPT !.pc = "read", !.datagram = d]

\* UDPCipherConnection.ReadFrom: a datagram shorter than the IV is an
\* ErrMalformedUDPPacket without a source address; the rest is decrypted.
ReadFrom(d) ==
    IF Len(d) < IVLength
    THEN [n |-> 0, b |-> <<>>, err |-> "ErrMalformedUDPPacket"]
    ELSE [n |-> Len(d) - IVLength,
          b |-> Decrypt(SubSeq(d, 1, IVLength), SubSeq(d, IVLength + 1, Len(d))),
          err |-> "nil"]

\* The loop of StartAndBlockUDP: an error that is not "closed" is logged and
\* the loop continues with the next datagram.
SockdReadFrom ==
    /\ sockd.pc = "read"
    /\ LET r == ReadFrom(sockd.datagram)
       IN IF r.err # "nil"
          THEN sockd' = [sockd EXCEPT !.pc = "dropped", !.err = r.err, !.logged = @ + 1]
          ELSE sockd' = [sockd EXCEPT !.pc = "admit", !.packet = r.b, !.n = r.n]

\* sock.rateLimitUDP.Add(clientIP, true) refuses the client.
SockdRefuse ==
    /\ sockd.pc = "admit"
    /\ sockd' = [sockd EXCEPT !.pc = "dropped"]

\* The length of the address header, as HandleUDPConnection works it out
\* from the buffer; 0 for an address type it does not know.
PacketLen(payload) ==
    LET maskedType == BufferAt(payload, 0) % (AddressTypeMask + 1)
    IN CASE maskedType = AddressTypeIPv4 -> UDPIPv4PacketLength
         [] maskedType = AddressTypeIPv6 -> UDPIPv6PacketLength
         [] maskedType = AddressTypeDM -> BufferAt(payload, DMAddrLengthIndex) + DMHeaderLength
         [] OTHER -> 0

\* resolveName := string(packet[DMAddrHeaderLength : DMAddrHeaderLength+int(packet[DMAddrLengthIndex])])
ResolveName(payload) ==
    BufferSlice(payload, DMAddrHeaderLength,
                DMAddrHeaderLength + BufferAt(payload, DMAddrLengthIndex))

\* The checks of HandleUDPConnection that end in server.WriteRand: the whole
\* buffer, whose length is MaxPacketSize, is what the handler is given.
HeaderRejected(payload, resolved) ==
    LET maskedType == BufferAt(payload, 0) % (AddressTypeMask + 1)
    IN \/ maskedType \notin {AddressTypeIPv4, AddressTypeIPv6, AddressTypeDM}
       \/ MaxPacketSize < PacketLen(payload)
       \/ /\ maskedType = AddressTypeDM
          /\ \/ \E i \in 1..Len(ResolveName(payload)) : ResolveName(payload)[i] = 0
             \/ ~resolved

\* HandleUDPConnection up to sock.udpBackLog.Put: a header that is refused
\* gets a random reply; otherwise the header is put into the backlog.
HandleUDPConnection(resolved) ==
    /\ sockd.pc = "admit"
    /\ IF HeaderRejected(sockd.packet, resolved)
       THEN sockd' = [sockd EXCEPT !.pc = "done", !.decoys = @ + 1]
       ELSE sockd' = [sockd EXCEPT !.pc = "get", !.packetLen = PacketLen(sockd.packet),
                                   !.backlog = TRUE]

\* udpClient, found, err := sock.udpTable.Get(clientAddr.String()), and the
\* relay task started for a new socket.
SockdGet ==
    /\ sockd.pc = "get"
    /\ sockd' = [sockd EXCEPT !.pc = "write", !.nat = TRUE]

\* net.ListenPacket fails in Get: the handler returns.
SockdGetFails ==
    /\ sockd.pc = "get"
    /\ sockd' = [sockd EXCEPT !.pc = "done"]

\* udpClient.WriteTo(packet[packetLen:n], destAddr): a slice whose low bound
\* is above its high bound panics.
SockdWriteTo ==
    /\ sockd.pc = "write"
    /\ IF sockd.n < sockd.packetLen
       THEN sockd' = [sockd EXCEPT !.pc = "done", !.panic = TRUE]
       ELSE sockd' = [sockd EXCEPT !.pc = "done", !.sent = TRUE,
                                   !.upstream = BufferSlice(sockd.packet, sockd.packetLen, sockd.n)]

(***************************************************************************)
(* The relay's backlog: sockd UDPBackLog, the handlers that put the header *)
(* of a request into it, the ticker that clears it, and the relay task     *)
(* that prefixes the replies it passes on to the client.                   *)
(***************************************************************************)
\* The replies one relay task passes on in one run.
MaxReplies == 2

\* The destinations, and the requests sent to them: the header of a request
\* names its destination by address or by a name that resolves to it.
Dest1 == [ip |-> <<10, 0, 0, 1>>, port |-> 53]
Dest2 == [ip |-> <<10, 0, 0, 2>>, port |-> 53]
Dests == {Dest1, Dest2}
RelayRequests ==
    {[dest |-> Dest1, header |-> Header4],
     [dest |-> Dest1, header |-> HeaderDM],
     [dest |-> Dest2, header |-> <<1, 10, 0, 0, 2, 0, 53>>]}

\* MakeUDPRequestHeader(addr) for an IPv4 address: the type, the address and
\* the port, big endian.
MakeUDPRequestHeader(addr) ==
    <<AddressTypeIPv4>> \o addr.ip \o <<addr.port \div 256, addr.port % 256>>

VARIABLES
    udpBackLog   \* the backlog map (<<>> for no entry), the handlers between
                 \* Get and Put, and the replies the relay task has written

IdleBacklogHandler == [pc |-> "idle", dest |-> Dest1, header |-> <<>>, found |-> FALSE]
NoBackLog ==
    [backlog |-> [d \in Dests |-> <<>>],
     handler |-> [h \in Callers |-> IdleBacklogHandler],
     replies |-> <<>>]

\* UDPBackLog.Clear(), by the ticker of StartAndBlockUDP.
BackLogClear ==
    /\ \E d \in Dests : udpBackLog.backlog[d] # <<>>
    /\ udpBackLog' = [udpBackLog EXCEPT !.backlog = [d \in Dests |-> <<>>]]

\* HandleUDPConnection: _, found := sock.udpBackLog.Get(destAddr.String())
BackLogGet(h, r) ==
    /\ udpBackLog.handler[h].pc = "idle"
    /\ udpBackLog' = [udpBackLog EXCEPT !.handler[h] =
            [pc |-> "got", dest |-> r.dest, header |-> r.header,
             found |-> udpBackLog.backlog[r.dest] # <<>>]]

\* HandleUDPConnection: if !found { ...; sock.udpBackLog.Put(destAddr.String(), backlogPacket) }
BackLogPut(h) ==
    /\ udpBackLog.handler[h].pc = "got"
    /\ udpBackLog' = [udpBackLog EXCEPT
            !.backlog = IF udpBackLog.handler[h].found THEN @
                        ELSE [@ EXCEPT ![udpBackLog.handler[h].dest] = udpBackLog.handler[h].header],
            !.handler[h] = IdleBacklogHandler]

\* The header PipeUDPConnection prefixes a packet of addr with, first mutated,
\* then as the code has it.
PipeHeaderFirstOnly(backlog, replies, addr) ==
    IF backlog[addr] # <<>> /\ replies = <<>> THEN backlog[addr] ELSE MakeUDPRequestHeader(addr)

PipeHeader(backlog, replies, addr) ==
    IF backlog[addr] # <<>> THEN backlog[addr] ELSE MakeUDPRequestHeader(addr)

\* One round of PipeUDPConnection's loop: a packet of addr is read from the
\* client's socket and written to the client behind its header.
PipeUDPConnection(addr) ==
    /\ Len(udpBackLog.replies) < MaxReplies
    /\ udpBackLog' = [udpBackLog EXCEPT !.replies =
            Append(@, [src |-> addr,
                       header |-> PipeHeader(udpBackLog.backlog, udpBackLog.replies, addr)])]

\* The relay task returns (its read fails); the next one starts afresh.
PipeUDPConnectionReturns ==
    /\ udpBackLog.replies # <<>>
    /\ udpBackLog' = [udpBackLog EXCEPT !.replies = <<>>]

(***************************************************************************)
(* The blacklist statement by statement: dnsd UpdatedAdBlockLists in the    *)
(* goroutine StartAndBlock starts for it, and NamesAreBlackListed called by *)
(* the goroutines that answer queries.                                      *)
(***************************************************************************)
\* The names a query asks for.
QueriedNames == {{"ads.example"}, {"track.example", "pgl.example"}}

VARIABLES
    blackList   \* daemon.blackList and daemon.blackListMutex, the refresh under
                \* way, and the membership tests

IdleTest == [pc |-> "idle", names |-> {}, seen |-> {}, ret |-> FALSE]
NoBlackList ==
    [blackList |-> {}, blackListMutex |-> "free",
     updater |-> [pc |-> "idle", entries |-> {}, logged |-> 0],
     previous |-> {}, complete |-> {},
     test |-> [c \in Callers |-> IdleTest]]

\* sync.Mutex.Lock returns only when no goroutine holds the mutex.
BlackListMutexAlwaysAvailable(m) == TRUE
BlackListMutexAvailable(m) == m = "free"

\* UpdatedAdBlockLists: the two fetches have returned pgl and mvps.
BlackListFetch(pgl, mvps) ==
    /\ blackList.updater.pc = "idle"
    /\ blackList' = [blackList EXCEPT !.updater.pc = "lock",
                                      !.updater.entries = BlackListFrom({}, pgl, mvps)]

\* daemon.blackListMutex.Lock()
BlackListLock ==
    /\ blackList.updater.pc = "lock"
    /\ BlackListMutexAvailable(blackList.blackListMutex)
    /\ blackList' = [blackList EXCEPT !.blackListMutex = "updater", !.updater.pc = "make"]

\* daemon.blackList = make(map[string]struct{})
BlackListMake ==
    /\ blackList.updater.pc = "make"
    /\ blackList' = [blackList EXCEPT !.blackList = {}, !.updater.pc = "fill",
                                      !.previous = blackList.blackList,
                                      !.complete = blackList.updater.entries]

\* daemon.blackList[name] = struct{}{}, one round of the two loops.
BlackListPut(name) ==
    /\ blackList.updater.pc = "fill"
    /\ name \in blackList.updater.entries
    /\ blackList' = [blackList EXCEPT !.blackList = @ \cup {name},
                                      !.updater.entries = @ \ {name}]

\* daemon.blackListMutex.Unlock(), then the log line with len(daemon.blackList).
BlackListUnlock ==
    /\ blackList.updater.pc = "fill"
    /\ blackList.updater.entries = {}
    /\ blackList' = [blackList EXCEPT
            !.blackListMutex = IF @ = "updater" THEN "free" ELSE @,
            !.updater.pc = "idle",
            !.updater.logged = Cardinality(blackList.blackList)]

\* NamesAreBlackListed(names): daemon.blackListMutex.Lock()
NamesLock(c, names) ==
    /\ blackList.test[c].pc = "idle"
    /\ BlackListMutexAvailable(blackList.blackListMutex)
    /\ blackList' = [blackList EXCEPT !.blackListMutex = c,
                                      !.test[c] = [IdleTest EXCEPT !.pc = "test", !.names = names]]

\* The loop over the names: true if one of them is in the map.
NamesAreBlackListed(c) ==
    /\ blackList.test[c].pc = "test"
    /\ blackList' = [blackList EXCEPT
            !.test[c].pc = "unlock",
            !.test[c].seen = blackList.blackList,
            !.test[c].ret = (blackList.test[c].names \cap blackList.blackList # {})]

\* defer daemon.blackListMutex.Unlock()
NamesUnlock(c) ==
    /\ blackList.test[c].pc = "unlock"
    /\ blackList' = [blackList EXCEPT !.blackListMutex = IF @ = c THEN "free" ELSE @,
                                      !.test[c] = IdleTest]

(***************************************************************************)
(* The chat bot's polls: the loop of telegrambot StartAndBlock asks for    *)
(* the updates from messageOffset on and gives them to ProcessMessages.    *)
(* Update identifiers are far below the 2^64 of their type.                *)
(***************************************************************************)
\* The largest identifier of an update.
MaxUpdateID == 5

\* The update with identifier id: commands of alice and of bob, "/start", a
\* command sent before the daemon started, and a command in a group chat.
UpdateOfID(id) ==
    CASE id = 1 -> APIUpdate("alice", "carol", 1, ChatTypePrivate, StartupTime, FloodLine)
      [] id = 2 -> APIUpdate("alice", "carol", 1, ChatTypePrivate, StartupTime,
                             Input(TextStart, "plain", FALSE, 0, 0, 0, TextStart))
      [] id = 3 -> APIUpdate("", "bob", 2, ChatTypePrivate, StartupTime, FloodLine)
      [] id = 4 -> APIUpdate("", "bob", 2, ChatTypePrivate, StartupTime - 1, FloodLine)
      [] id = 5 -> APIUpdate("alice", "carol", 1, "group", StartupTime, FloodLine)
      [] OTHER -> APIUpdate("alice", "carol", 1, ChatTypePrivate, StartupTime, FloodLine)

\* What getUpdates?offset=messageOffset may answer: updates with identifiers
\* from the offset on, in any order.
PollAnswers(messageOffset) ==
    {ids \in UNION {[1..n -> messageOffset..MaxUpdateID] : n \in 1..MaxBatch} :
        \A i, j \in 1..Len(ids) : i # j => ids[i] # ids[j]}

\* if bot.messageOffset <= ding.ID { bot.messageOffset = ding.ID + 1 }
MessageOffsetOfLast(messageOffset, id) == id + 1
MessageOffsetAfter(messageOffset, id) ==
    IF messageOffset <= id THEN id + 1 ELSE messageOffset

\* The loop of ProcessMessages over the updates from the i-th on: the offset
\* and the limiter afterwards, and the updates a goroutine is started for.
RECURSIVE ProcessMessagesFrom(_, _, _, _, _)
ProcessMessagesFrom(messageOffset, limit, now, ids, i) ==
    IF i > Len(ids)
    THEN [messageOffset |-> messageOffset, limit |-> limit, go |-> {}]
    ELSE LET h == HandleUpdate(limit, now, UpdateOfID(ids[i]))
             rest == ProcessMessagesFrom(MessageOffsetAfter(messageOffset, ids[i]),
                                         h.limit, now, ids, i + 1)
         IN [rest EXCEPT !.go = IF h.outcome = "go" THEN @ \cup {ids[i]} ELSE @]

VARIABLES
    poller  \* bot.messageOffset and bot.userRateLimit, the clock, the last answer of
            \* getUpdates, and how often each update was given to the processor

NoBot ==
    [messageOffset |-> 0, limit |-> NewRateLimit(0, 0), now |-> 0, polled |-> <<>>,
     failed |-> FALSE, handed |-> [id \in 0..MaxUpdateID |-> 0]]

\* One round of the loop: the poll fails, or its answer is no JSON or not OK.
BotPollFails ==
    /\ poller.limit.MaxCount > 0
    /\ ~poller.failed
    /\ poller' = [poller EXCEPT !.failed = TRUE, !.polled = <<>>]

\* One round of the loop: the poll answers with no updates.
BotPollEmpty ==
    /\ poller.limit.MaxCount > 0
    /\ poller.failed \/ poller.polled # <<>>
    /\ poller' = [poller EXCEPT !.failed = FALSE, !.polled = <<>>]

\* One round of the loop: bot.ProcessMessages(newMessages).
BotProcessMessages(ids) ==
    /\ poller.limit.MaxCount > 0
    /\ LET r == ProcessMessagesFrom(poller.messageOffset, poller.limit, poller.now, ids, 1)
       IN poller' = [poller EXCEPT !.messageOffset = r.messageOffset, !.limit = r.limit,
                             !.polled = ids, !.failed = FALSE,
                             !.handed = [id \in 0..MaxUpdateID |->
                                            IF id \in r.go /\ @[id] < 2 THEN @[id] + 1 ELSE @[id]]]

\* time.After(PollIntervalSec * time.Second)
BotTick ==
    /\ poller.limit.MaxCount > 0
    /\ poller.now + PollIntervalSec <= MaxChatTime
    /\ poller' = [poller EXCEPT !.now = @ + PollIntervalSec]

(***************************************************************************)
(* Specifications. Each part of the program runs on its own; the rest is   *)
(* at rest in its initial state.                                           *)
(***************************************************************************)
\* The variables of the services modelled further on, one record each.
serviceVars == <<flood, udp, web, chat, dns, adblock, dnsd, dnsrun, relay, sockd, udpBackLog, blackList, poller>>
vars == <<rlVars, procVars, saneVars, lifeVars, connVars, serviceVars>>
exceptRateLimit == <<procVars, saneVars, lifeVars, connVars, serviceVars>>
exceptProcessor == <<rlVars, saneVars, lifeVars, connVars, serviceVars>>
exceptSanity == <<rlVars, procVars, lifeVars, connVars, serviceVars>>
exceptDaemons ==
    <<rlVars, saneVars, connVars, serviceVars, CommandFilters, ResultFilters, LookupByTrigger,
      configured, calls>>
exceptConnections == <<saneVars, lifeVars, serviceVars>>
exceptSvcFlood == <<saneVars, lifeVars, udp, web, chat, dns, adblock, dnsd, dnsrun, relay, sockd, udpBackLog, blackList, poller>>

\* The rate limiter, the processor, the daemons' initialisation, each at rest.
RateLimitAtRest ==
    /\ UnitSecs = 1
    /\ MaxCount = 1
    /\ lastTimestamp = 0
    /\ counter = EmptyMap
    /\ logged = {}
    /\ counterMutex = "free"
    /\ clock = ClockStart
    /\ thr = [t \in Threads |-> IdleThread]
    /\ rlRet = NoReturn
    /\ warnings = ZeroPerActor
    /\ admitted = ZeroPerActor
    /\ admitLog = [a \in Actors |-> <<0>>]
ProcessorAtRest ==
    /\ EmergencyLockDown = FALSE
    /\ CommandFilters = <<>>
    /\ ResultFilters = <<>>
    /\ LookupByTrigger = {}
    /\ configured = <<>>
    /\ calls = [c \in Callers |-> IdleCall]
SanityAtRest ==
    /\ candidate = [present |-> FALSE, proc |-> NoProcessor]
    /\ errs = [called |-> FALSE, list |-> <<>>]
    /\ bot = [AuthorizationToken |-> "", RateLimit |-> 0, userRateLimit |-> "nil",
              initialised |-> FALSE, err |-> NoError]
    /\ httpd = [Address |-> "", Port |-> 0, BaseRateLimit |-> 0, features |-> 0,
                Processor |-> NoProcessor, initialised |-> FALSE, err |-> NoError]
DaemonsAtRest ==
    /\ daemon = "tcp"
    /\ loop = IdleLoop
    /\ loopIsRunning = 0
    /\ stops = [s \in Stoppers |-> IdleStopper]
ConnectionsAtRest == conns = [c \in Callers |-> NoConnection]
ServicesAtRest ==
    /\ poller = NoBot
    /\ blackList = NoBlackList
    /\ udpBackLog = NoBackLog
    /\ sockd = NoSockd
    /\ relay = NoRelay
    /\ dnsrun = NoDNSRun
    /\ dnsd = NoDNSD
    /\ adblock = NoAdBlock
    /\ dns = NoDNS
    /\ chat = NoChat
    /\ web = NoWeb
    /\ udp = [c \in Callers |-> NoDatagram]
    /\ flood = NoFlood

InitRateLimit ==
    /\ UnitSecs \in 1..MaxUnitSecs
    /\ MaxCount \in 1..MaxMaxCount
    /\ InitialiseOK(UnitSecs, MaxCount)
    /\ lastTimestamp = 0
    /\ counter = EmptyMap
    /\ logged = {}
    /\ counterMutex = "free"
    /\ clock = ClockStart
    /\ thr = [t \in Threads |-> IdleThread]
    /\ rlRet = NoReturn
    /\ warnings = ZeroPerActor
    /\ admitted = ZeroPerActor
    /\ admitLog = [a \in Actors |-> [s \in 1..UnitSecs |-> 0]]
    /\ EmergencyLockDown = FALSE
    /\ CommandFilters = <<>>
    /\ ResultFilters = <<>>
    /\ LookupByTrigger = {}
    /\ configured = <<>>
    /\ calls = [c \in Callers |-> IdleCall]
    /\ SanityAtRest
    /\ DaemonsAtRest
    /\ ConnectionsAtRest
    /\ ServicesAtRest

InitProcessor ==
    /\ EmergencyLockDown = FALSE
    /\ CommandFilters \in CommandFilterLists
    /\ ResultFilters \in ResultFilterLists
    /\ LookupByTrigger \in TriggerSets
    /\ configured = ResultFilters
    /\ calls = [c \in Callers |-> IdleCall]
    /\ UnitSecs = 1
    /\ MaxCount = 1
    /\ lastTimestamp = 0
    /\ counter = EmptyMap
    /\ logged = {}
    /\ counterMutex = "free"
    /\ clock = ClockStart
    /\ thr = [t \in Threads |-> IdleThread]
    /\ rlRet = NoReturn
    /\ warnings = ZeroPerActor
    /\ admitted = ZeroPerActor
    /\ admitLog = [a \in Actors |-> <<0>>]
    /\ SanityAtRest
    /\ DaemonsAtRest
    /\ ConnectionsAtRest
    /\ ServicesAtRest

\* The processor configured with a result filter that returns an error.
InitProcessorResultErrors ==
    /\ EmergencyLockDown = FALSE
    /\ CommandFilters \in CommandFilterLists
    /\ ResultFilters \in FailingResultFilterLists
    /\ LookupByTrigger \in TriggerSets
    /\ configured = ResultFilters
    /\ calls = [c \in Callers |-> IdleCall]
    /\ UnitSecs = 1
    /\ MaxCount = 1
    /\ lastTimestamp = 0
    /\ counter = EmptyMap
    /\ logged = {}
    /\ counterMutex = "free"
    /\ clock = ClockStart
    /\ thr = [t \in Threads |-> IdleThread]
    /\ rlRet = NoReturn
    /\ warnings = ZeroPerActor
    /\ admitted = ZeroPerActor
    /\ admitLog = [a \in Actors |-> <<0>>]
    /\ SanityAtRest
    /\ DaemonsAtRest
    /\ ConnectionsAtRest
    /\ ServicesAtRest

InitSanity ==
    /\ candidate \in [present : {TRUE}, proc : ProcessorConfigs]
                     \cup {[present |-> FALSE, proc |-> NoProcessor]}
    /\ errs = [called |-> FALSE, list |-> <<>>]
    /\ bot \in [AuthorizationToken : {"", "dummy"}, RateLimit : {0, 1},
                userRateLimit : {"nil"}, initialised : {FALSE}, err : {NoError}]
    /\ httpd \in [Address : {"", "0.0.0.0"}, Port : {0, 80}, BaseRateLimit : {1},
                  features : {0, 2}, Processor : {NoProcessor}, initialised : {FALSE},
                  err : {NoError}]
    /\ RateLimitAtRest
    /\ ProcessorAtRest
    /\ DaemonsAtRest
    /\ ConnectionsAtRest
    /\ ServicesAtRest

InitDaemons ==
    /\ daemon \in Daemons
    /\ loop = IdleLoop
    /\ loopIsRunning = 0
    /\ stops = [s \in Stoppers |-> IdleStopper]
    /\ RateLimitAtRest
    /\ ProcessorAtRest
    /\ SanityAtRest
    /\ ConnectionsAtRest
    /\ ServicesAtRest

\* The daemon of the tests: PIN, shell and environment features, the usual
\* result filters, a limiter that lets a client through MaxLines + 1 times a
\* second: one connection with all its lines.
InitConnections ==
    /\ conns = [c \in Callers |-> NoConnection]
    /\ UnitSecs = 1
    /\ MaxCount = MaxLines + 1
    /\ lastTimestamp = 0
    /\ counter = EmptyMap
    /\ logged = {}
    /\ counterMutex = "free"
    /\ clock = ClockStart
    /\ thr = [t \in Threads |-> IdleThread]
    /\ rlRet = NoReturn
    /\ warnings = ZeroPerActor
    /\ admitted = ZeroPerActor
    /\ admitLog = [a \in Actors |-> <<0>>]
    /\ EmergencyLockDown = FALSE
    /\ CommandFilters = <<"PINAndShortcuts">>
    /\ ResultFilters = <<PlainResultFilter("ResetCombinedText"), LintText(TRUE, 35, 0),
                          PlainResultFilter("SayEmptyOutput")>>
    /\ LookupByTrigger = {TriggerShell, TriggerEnvControl}
    /\ configured = ResultFilters
    /\ calls = [c \in Callers |-> IdleCall]
    /\ SanityAtRest
    /\ DaemonsAtRest
    /\ ServicesAtRest

NextRateLimit ==
    \/ \E a \in Actors, l \in BOOLEAN : Add(a, l) /\ UNCHANGED exceptRateLimit
    \/ Tick /\ UNCHANGED exceptRateLimit

SpecRateLimit == InitRateLimit /\ [][NextRateLimit]_vars

NextRateLimitThreads ==
    \/ \E t \in Threads, a \in Actors, l \in BOOLEAN : Call(t, a, l) /\ UNCHANGED exceptRateLimit
    \/ \E t \in Threads : Lock(t) /\ UNCHANGED exceptRateLimit
    \/ \E t \in Threads : CheckWindow(t) /\ UNCHANGED exceptRateLimit
    \/ \E t \in Threads : ResetCounter(t) /\ UNCHANGED exceptRateLimit
    \/ \E t \in Threads : ResetLogged(t) /\ UNCHANGED exceptRateLimit
    \/ \E t \in Threads : ResetStamp(t) /\ UNCHANGED exceptRateLimit
    \/ \E t \in Threads : Lookup(t) /\ UNCHANGED exceptRateLimit
    \/ \E t \in Threads : Refuse(t) /\ UNCHANGED exceptRateLimit
    \/ \E t \in Threads : UnlockFalse(t) /\ UNCHANGED exceptRateLimit
    \/ \E t \in Threads : Store(t) /\ UNCHANGED exceptRateLimit
    \/ \E t \in Threads : UnlockTrue(t) /\ UNCHANGED exceptRateLimit
    \/ TickThreads /\ UNCHANGED exceptRateLimit

SpecRateLimitThreads == InitRateLimit /\ [][NextRateLimitThreads]_vars

NextProcessor ==
    \/ \E input \in Inputs, order \in IterationOrders(LookupByTrigger) :
          Process("c1", input, order) /\ UNCHANGED exceptProcessor
    \/ Deliver("c1") /\ UNCHANGED exceptProcessor

SpecProcessor == InitProcessor /\ [][NextProcessor]_vars

SpecProcessorResultErrors == InitProcessorResultErrors /\ [][NextProcessor]_vars

NextSanity ==
    \/ CallIsSaneForInternet /\ UNCHANGED exceptSanity
    \/ CallBotInitialise /\ UNCHANGED exceptSanity
    \/ CallHttpdInitialise /\ UNCHANGED exceptSanity

SpecSanity == InitSanity /\ [][NextSanity]_vars

NextDaemons ==
    \/ StartAndBlock /\ UNCHANGED exceptDaemons
    \/ \E ok \in BOOLEAN : Listen(ok) /\ UNCHANGED exceptDaemons
    \/ KeepListener /\ UNCHANGED exceptDaemons
    \/ \E ok \in BOOLEAN : SelfTest(ok) /\ UNCHANGED exceptDaemons
    \/ CheckLockDown /\ UNCHANGED exceptDaemons
    \/ IOOnClosedListener /\ UNCHANGED exceptDaemons
    \/ IOArrives /\ UNCHANGED exceptDaemons
    \/ IOFails /\ UNCHANGED exceptDaemons
    \/ Poll /\ UNCHANGED exceptDaemons
    \/ SleepAndContinue /\ UNCHANGED exceptDaemons
    \/ \E s \in Stoppers : StopListener(s) /\ UNCHANGED exceptDaemons
    \/ \E s \in Stoppers : StopBot(s) /\ UNCHANGED exceptDaemons
    \/ SetLockDown /\ UNCHANGED exceptDaemons

NextConnections ==
    \/ \E c \in Callers : \E ip \in ClientIPs(c) :
          Connect(c, ip) /\ UNCHANGED exceptConnections
    \/ \E c \in Callers, line \in ConnLines :
          ClientSends(c, line) /\ UNCHANGED exceptConnections
    \/ \E c \in Callers : AdmitConnection(c) /\ UNCHANGED exceptConnections
    \/ \E c \in Callers : ReadOneLine(c) /\ UNCHANGED exceptConnections
    \/ \E c \in Callers : ReadEnds(c) /\ UNCHANGED exceptConnections
    \/ \E c \in Callers : AdmitLine(c) /\ UNCHANGED exceptConnections
    \/ \E c \in Callers, order \in IterationOrders(LookupByTrigger) :
          ProcessLine(c, order) /\ UNCHANGED exceptConnections
    \/ \E c \in Callers : WriteCombinedOutput(c) /\ UNCHANGED exceptConnections
    \/ \E c \in Callers : WriteLineEnd(c) /\ UNCHANGED exceptConnections

SpecConnections == InitConnections /\ [][NextConnections]_vars

SpecDaemons == InitDaemons /\ [][NextDaemons]_vars

\* The steps StartAndBlock takes by itself, none of which waits for a client
\* or for a caller: the calls that return within a timeout, the timer, and
\* the read of a closed listener.
LoopSteps ==
    \/ KeepListener /\ UNCHANGED exceptDaemons
    \/ CheckLockDown /\ UNCHANGED exceptDaemons
    \/ IOOnClosedListener /\ UNCHANGED exceptDaemons
    \/ Poll /\ UNCHANGED exceptDaemons
    \/ SleepAndContinue /\ UNCHANGED exceptDaemons

SpecDaemonsFair == InitDaemons /\ [][NextDaemons]_vars /\ WF_vars(LoopSteps)

NextProcessorThreads ==
    \/ \E c \in Callers, input \in ThreadInputs, order \in IterationOrders(LookupByTrigger) :
          ProcessBegin(c, input, order) /\ UNCHANGED exceptProcessor
    \/ \E c \in Callers : ProcessEnd(c) /\ UNCHANGED exceptProcessor
    \/ \E c \in Callers : Deliver(c) /\ UNCHANGED exceptProcessor

SpecProcessorThreads == InitProcessor /\ [][NextProcessorThreads]_vars

\* The daemon of the tests with a limiter as Initialise makes it: PerIPLimit in
\* UnitSecs seconds, not used before.
InitSvcFlood ==
    /\ poller = NoBot
    /\ blackList = NoBlackList
    /\ udpBackLog = NoBackLog
    /\ sockd = NoSockd
    /\ relay = NoRelay
    /\ dnsrun = NoDNSRun
    /\ dnsd = NoDNSD
    /\ adblock = NoAdBlock
    /\ dns = NoDNS
    /\ chat = NoChat
    /\ web = NoWeb
    /\ udp = [c \in Callers |-> NoDatagram]
    /\ flood = NoFlood
    /\ conns = [c \in Callers |-> NoConnection]
    /\ UnitSecs \in 1..MaxUnitSecs
    /\ MaxCount = PerIPLimit
    /\ lastTimestamp = 0
    /\ counter = EmptyMap
    /\ logged = {}
    /\ counterMutex = "free"
    /\ clock = ClockStart
    /\ thr = [t \in Threads |-> IdleThread]
    /\ rlRet = NoReturn
    /\ warnings = ZeroPerActor
    /\ admitted = ZeroPerActor
    /\ admitLog = [a \in Actors |-> [s \in 1..UnitSecs |-> 0]]
    /\ EmergencyLockDown = FALSE
    /\ CommandFilters = <<"PINAndShortcuts">>
    /\ ResultFilters = <<PlainResultFilter("ResetCombinedText"), LintText(TRUE, 35, 0),
                          PlainResultFilter("SayEmptyOutput")>>
    /\ LookupByTrigger = {TriggerShell, TriggerEnvControl}
    /\ configured = ResultFilters
    /\ calls = [c \in Callers |-> IdleCall]
    /\ SanityAtRest
    /\ DaemonsAtRest

NextFlood ==
    \/ FloodDial /\ UNCHANGED exceptSvcFlood
    \/ AdmitConnection("c1") /\ UNCHANGED <<flood, exceptSvcFlood>>
    \/ ReadOneLine("c1") /\ UNCHANGED <<flood, exceptSvcFlood>>
    \/ AdmitLine("c1") /\ UNCHANGED <<flood, exceptSvcFlood>>
    \/ \E order \in IterationOrders(LookupByTrigger) :
          ProcessLine("c1", order) /\ UNCHANGED <<flood, exceptSvcFlood>>
    \/ WriteCombinedOutput("c1") /\ UNCHANGED <<flood, exceptSvcFlood>>
    \/ WriteLineEnd("c1") /\ UNCHANGED <<flood, exceptSvcFlood>>
    \/ FloodReadReply /\ UNCHANGED exceptSvcFlood
    \/ FloodReadFails /\ UNCHANGED exceptSvcFlood
    \/ FloodTick /\ UNCHANGED exceptSvcFlood

SpecFlood == InitSvcFlood /\ [][NextFlood]_vars

exceptSvcDatagrams == <<saneVars, lifeVars, flood, web, chat, dns, adblock, dnsd, dnsrun, relay, sockd, udpBackLog, blackList, poller>>

\* The daemon of the tests receiving datagrams, with a limiter that lets one
\* datagram with all its lines through in a second.
InitSvcDatagrams ==
    /\ poller = NoBot
    /\ blackList = NoBlackList
    /\ udpBackLog = NoBackLog
    /\ sockd = NoSockd
    /\ relay = NoRelay
    /\ dnsrun = NoDNSRun
    /\ dnsd = NoDNSD
    /\ adblock = NoAdBlock
    /\ dns = NoDNS
    /\ chat = NoChat
    /\ web = NoWeb
    /\ flood = NoFlood
    /\ udp = [c \in Callers |-> NoDatagram]
    /\ InitConnections

NextDatagrams ==
    \/ \E c \in Callers : \E ip \in ClientIPs(c) : \E packet \in Packets :
          ReadFromUDP(c, ip, packet) /\ UNCHANGED exceptSvcDatagrams
    \/ \E c \in Callers : UDPReadOneLine(c) /\ UNCHANGED exceptSvcDatagrams
    \/ \E c \in Callers : UDPReadEnds(c) /\ UNCHANGED exceptSvcDatagrams
    \/ \E c \in Callers : UDPAdmitLine(c) /\ UNCHANGED exceptSvcDatagrams
    \/ \E c \in Callers, order \in IterationOrders(LookupByTrigger) :
          UDPProcessLine(c, order) /\ UNCHANGED exceptSvcDatagrams
    \/ \E c \in Callers : WriteToUDPCombinedOutput(c) /\ UNCHANGED exceptSvcDatagrams
    \/ \E c \in Callers : WriteToUDPLineEnd(c) /\ UNCHANGED exceptSvcDatagrams
    \/ \E c \in Callers : WriteToUDPFails(c) /\ UNCHANGED exceptSvcDatagrams

SpecDatagrams == InitSvcDatagrams /\ [][NextDatagrams]_vars

exceptSvcWeb == <<rlVars, saneVars, lifeVars, connVars, CommandFilters, ResultFilters, LookupByTrigger, configured, calls, flood, udp, chat, dns, adblock, dnsd, dnsrun, relay, sockd, udpBackLog, blackList, poller>>

\* The HTTP daemon after Initialise, with BaseRateLimit at least 1.
InitSvcWeb ==
    /\ poller = NoBot
    /\ blackList = NoBlackList
    /\ udpBackLog = NoBackLog
    /\ sockd = NoSockd
    /\ relay = NoRelay
    /\ dnsrun = NoDNSRun
    /\ dnsd = NoDNSD
    /\ adblock = NoAdBlock
    /\ dns = NoDNS
    /\ chat = NoChat
    /\ flood = NoFlood
    /\ udp = [c \in Callers |-> NoDatagram]
    /\ \E base \in 1..MaxBaseRateLimit, f \in 1..MaxFactor :
          web = [NoWeb EXCEPT !.base = base, !.factor = f, !.limits = AllRateLimits(base, f),
                              !.now = RateLimitIntervalSec]
    /\ RateLimitAtRest
    /\ ProcessorAtRest
    /\ SanityAtRest
    /\ DaemonsAtRest
    /\ ConnectionsAtRest

NextWeb ==
    \/ \E e \in Endpoints, ip \in WebClients, handlerStatus \in HandlerStatuses :
          ServeHTTP(e, ip, handlerStatus) /\ UNCHANGED <<EmergencyLockDown, exceptSvcWeb>>
    \/ WebTick /\ UNCHANGED <<EmergencyLockDown, exceptSvcWeb>>
    \/ SetLockDown /\ UNCHANGED exceptDaemons

SpecWeb == InitSvcWeb /\ [][NextWeb]_vars

exceptSvcChat == <<rlVars, saneVars, lifeVars, connVars, flood, udp, web, dns, adblock, dnsd, dnsrun, relay, sockd, udpBackLog, blackList, poller>>

\* The bot after Initialise, with RateLimit at least 1 and the processor of
\* the tests.
InitSvcChat ==
    /\ poller = NoBot
    /\ blackList = NoBlackList
    /\ udpBackLog = NoBackLog
    /\ sockd = NoSockd
    /\ relay = NoRelay
    /\ dnsrun = NoDNSRun
    /\ dnsd = NoDNSD
    /\ adblock = NoAdBlock
    /\ dns = NoDNS
    /\ flood = NoFlood
    /\ udp = [c \in Callers |-> NoDatagram]
    /\ web = NoWeb
    /\ \E max \in 1..MaxBotRateLimit :
          chat = [NoChat EXCEPT !.limit = NewRateLimit(PollIntervalSec, max),
                                !.now = StartupTime]
    /\ EmergencyLockDown = FALSE
    /\ CommandFilters = <<"PINAndShortcuts">>
    /\ ResultFilters = <<PlainResultFilter("ResetCombinedText"), LintText(TRUE, 35, 0),
                          PlainResultFilter("SayEmptyOutput")>>
    /\ LookupByTrigger = {TriggerShell, TriggerEnvControl}
    /\ configured = ResultFilters
    /\ calls = [c \in Callers |-> IdleCall]
    /\ RateLimitAtRest
    /\ SanityAtRest
    /\ DaemonsAtRest
    /\ ConnectionsAtRest

NextChat ==
    \/ \E updates \in Batches : ProcessMessages(updates) /\ UNCHANGED <<procVars, exceptSvcChat>>
    \/ \E c \in Callers, i \in 1..MaxBatch, order \in IterationOrders(LookupByTrigger) :
          ChatProcess(c, i, order) /\ UNCHANGED exceptSvcChat
    \/ \E c \in Callers : ChatReply(c) /\ UNCHANGED exceptSvcChat
    \/ ChatTick /\ UNCHANGED <<procVars, exceptSvcChat>>

SpecChat == InitSvcChat /\ [][NextChat]_vars

exceptSvcDNS == <<rlVars, procVars, saneVars, lifeVars, connVars, flood, udp, web, chat, adblock, dnsd, dnsrun, relay, sockd, udpBackLog, blackList, poller>>

InitSvcDNS ==
    /\ poller = NoBot
    /\ blackList = NoBlackList
    /\ udpBackLog = NoBackLog
    /\ sockd = NoSockd
    /\ relay = NoRelay
    /\ dnsrun = NoDNSRun
    /\ dnsd = NoDNSD
    /\ adblock = NoAdBlock
    /\ flood = NoFlood
    /\ udp = [c \in Callers |-> NoDatagram]
    /\ web = NoWeb
    /\ chat = NoChat
    /\ dns = NoDNS
    /\ RateLimitAtRest
    /\ ProcessorAtRest
    /\ SanityAtRest
    /\ DaemonsAtRest
    /\ ConnectionsAtRest

NextDNS ==
    \/ \E packet \in DNSPackets : CallRespondWith0(packet) /\ UNCHANGED exceptSvcDNS
    \/ \E id \in QueryIDs, counts \in QueryCounts, labels \in QueryNames,
          tc \in {TypeAClassIN, TypeAAAAClassIN} :
          CallExtractDomainName(id, counts, labels, tc) /\ UNCHANGED exceptSvcDNS
    \/ \E packet \in CutPackets :
          CallExtractDomainNameOfPacket(packet) /\ UNCHANGED exceptSvcDNS

SpecDNS == InitSvcDNS /\ [][NextDNS]_vars

exceptSvcAdBlock == <<rlVars, procVars, saneVars, lifeVars, connVars, flood, udp, web, chat, dns, dnsd, dnsrun, relay, sockd, udpBackLog, blackList, poller>>

\* dnsd after Initialise: daemon.blackList = make(map[string]struct{})
InitSvcAdBlock ==
    /\ poller = NoBot
    /\ blackList = NoBlackList
    /\ udpBackLog = NoBackLog
    /\ sockd = NoSockd
    /\ relay = NoRelay
    /\ dnsrun = NoDNSRun
    /\ dnsd = NoDNSD
    /\ flood = NoFlood
    /\ udp = [c \in Callers |-> NoDatagram]
    /\ web = NoWeb
    /\ chat = NoChat
    /\ dns = NoDNS
    /\ adblock = NoAdBlock
    /\ RateLimitAtRest
    /\ ProcessorAtRest
    /\ SanityAtRest
    /\ DaemonsAtRest
    /\ ConnectionsAtRest

NextAdBlock ==
    \E pgl \in FetchResults, mvps \in FetchResults :
        UpdatedAdBlockLists(pgl, mvps) /\ UNCHANGED exceptSvcAdBlock

SpecAdBlock == InitSvcAdBlock /\ [][NextAdBlock]_vars

exceptSvcDNSD == <<rlVars, procVars, saneVars, lifeVars, connVars, flood, udp, web, chat, dns, adblock, dnsrun, relay, sockd, udpBackLog, blackList, poller>>

InitSvcDNSD ==
    /\ poller = NoBot
    /\ blackList = NoBlackList
    /\ udpBackLog = NoBackLog
    /\ sockd = NoSockd
    /\ relay = NoRelay
    /\ dnsrun = NoDNSRun
    /\ flood = NoFlood
    /\ udp = [c \in Callers |-> NoDatagram]
    /\ web = NoWeb
    /\ chat = NoChat
    /\ dns = NoDNS
    /\ adblock = NoAdBlock
    /\ dnsd = NoDNSD
    /\ RateLimitAtRest
    /\ ProcessorAtRest
    /\ SanityAtRest
    /\ DaemonsAtRest
    /\ ConnectionsAtRest

NextDNSD ==
    \E cfg \in DNSDConfigs, dialled \in BOOLEAN, latestIP \in {"", "203.0.113.7"} :
        CallDNSDInitialise(cfg, dialled, latestIP) /\ UNCHANGED exceptSvcDNSD

SpecDNSD == InitSvcDNSD /\ [][NextDNSD]_vars

exceptSvcDNSRun == <<rlVars, procVars, saneVars, lifeVars, connVars, flood, udp, web, chat, dns, adblock, dnsd, relay, sockd, udpBackLog, blackList, poller>>

\* An initialised daemon that serves UDP, TCP or both.
InitSvcDNSRun ==
    /\ poller = NoBot
    /\ blackList = NoBlackList
    /\ udpBackLog = NoBackLog
    /\ sockd = NoSockd
    /\ relay = NoRelay
    /\ flood = NoFlood
    /\ udp = [c \in Callers |-> NoDatagram]
    /\ web = NoWeb
    /\ chat = NoChat
    /\ dns = NoDNS
    /\ adblock = NoAdBlock
    /\ dnsd = NoDNSD
    /\ \E served \in (SUBSET Protocols) \ {{}} : dnsrun = [NoDNSRun EXCEPT !.served = served]
    /\ RateLimitAtRest
    /\ ProcessorAtRest
    /\ SanityAtRest
    /\ DaemonsAtRest
    /\ ConnectionsAtRest

NextDNSRun ==
    \/ DNSStartAndBlock /\ UNCHANGED exceptSvcDNSRun
    \/ \E p \in Protocols : DNSListenFails(p) /\ UNCHANGED exceptSvcDNSRun
    \/ \E p \in Protocols : DNSListen(p) /\ UNCHANGED exceptSvcDNSRun
    \/ \E p \in Protocols : DNSRegister(p) /\ UNCHANGED exceptSvcDNSRun
    \/ \E p \in Protocols : DNSServeFails(p) /\ UNCHANGED exceptSvcDNSRun
    \/ \E p \in Protocols : DNSServeEnds(p) /\ UNCHANGED exceptSvcDNSRun
    \/ DNSReceive /\ UNCHANGED exceptSvcDNSRun
    \/ DNSStop /\ UNCHANGED exceptSvcDNSRun

SpecDNSRun == InitSvcDNSRun /\ [][NextDNSRun]_vars

exceptSvcRelay == <<rlVars, procVars, saneVars, lifeVars, connVars, flood, udp, web, chat, dns, adblock, dnsd, dnsrun, sockd, udpBackLog, blackList, poller>>

\* sock.udpTable = &UDPTable{connections: map[string]net.PacketConn{}, ...}
InitSvcRelay ==
    /\ poller = NoBot
    /\ blackList = NoBlackList
    /\ udpBackLog = NoBackLog
    /\ sockd = NoSockd
    /\ flood = NoFlood
    /\ udp = [c \in Callers |-> NoDatagram]
    /\ web = NoWeb
    /\ chat = NoChat
    /\ dns = NoDNS
    /\ adblock = NoAdBlock
    /\ dnsd = NoDNSD
    /\ dnsrun = NoDNSRun
    /\ relay = NoRelay
    /\ RateLimitAtRest
    /\ ProcessorAtRest
    /\ SanityAtRest
    /\ DaemonsAtRest
    /\ ConnectionsAtRest

NextRelay ==
    \/ \E h \in Callers : RelayWriteRand(h) /\ UNCHANGED exceptSvcRelay
    \/ \E h \in Callers : RelayReturn(h) /\ UNCHANGED exceptSvcRelay
    \/ \E h \in Callers : RelayGet(h) /\ UNCHANGED exceptSvcRelay
    \/ \E h \in Callers : RelayGetFails(h) /\ UNCHANGED exceptSvcRelay
    \/ \E h \in Callers : RelayStartPipe(h) /\ UNCHANGED exceptSvcRelay
    \/ \E h \in Callers : RelayWriteTo(h) /\ UNCHANGED exceptSvcRelay
    \/ \E h \in Callers : RelayWriteToFails(h) /\ UNCHANGED exceptSvcRelay
    \/ \E s \in 1..MaxSockets : PipeReturns(s) /\ UNCHANGED exceptSvcRelay
    \/ \E s \in 1..MaxSockets : PipeDelete(s) /\ UNCHANGED exceptSvcRelay

SpecRelay == InitSvcRelay /\ [][NextRelay]_vars

exceptSvcSockd == <<rlVars, procVars, saneVars, lifeVars, connVars, flood, udp, web, chat, dns, adblock, dnsd, dnsrun, relay, udpBackLog, blackList, poller>>

\* udpEncryptedServer := &UDPCipherConnection{PacketConn: udpServer, ...}
InitSvcSockd ==
    /\ poller = NoBot
    /\ blackList = NoBlackList
    /\ udpBackLog = NoBackLog
    /\ flood = NoFlood
    /\ udp = [c \in Callers |-> NoDatagram]
    /\ web = NoWeb
    /\ chat = NoChat
    /\ dns = NoDNS
    /\ adblock = NoAdBlock
    /\ dnsd = NoDNSD
    /\ dnsrun = NoDNSRun
    /\ relay = NoRelay
    /\ sockd = NoSockd
    /\ RateLimitAtRest
    /\ ProcessorAtRest
    /\ SanityAtRest
    /\ DaemonsAtRest
    /\ ConnectionsAtRest

NextSockd ==
    \/ \E d \in RelayDatagrams : SockdReceive(d) /\ UNCHANGED exceptSvcSockd
    \/ SockdReadFrom /\ UNCHANGED exceptSvcSockd
    \/ SockdRefuse /\ UNCHANGED exceptSvcSockd
    \/ \E resolved \in BOOLEAN : HandleUDPConnection(resolved) /\ UNCHANGED exceptSvcSockd
    \/ SockdGet /\ UNCHANGED exceptSvcSockd
    \/ SockdGetFails /\ UNCHANGED exceptSvcSockd
    \/ SockdWriteTo /\ UNCHANGED exceptSvcSockd

SpecSockd == InitSvcSockd /\ [][NextSockd]_vars

exceptSvcBackLog == <<rlVars, procVars, saneVars, lifeVars, connVars, flood, udp, web, chat, dns, adblock, dnsd, dnsrun, relay, sockd, blackList, poller>>

\* sock.udpBackLog = &UDPBackLog{backlog: map[string]([]byte){}, ...}
InitSvcBackLog ==
    /\ poller = NoBot
    /\ blackList = NoBlackList
    /\ flood = NoFlood
    /\ udp = [c \in Callers |-> NoDatagram]
    /\ web = NoWeb
    /\ chat = NoChat
    /\ dns = NoDNS
    /\ adblock = NoAdBlock
    /\ dnsd = NoDNSD
    /\ dnsrun = NoDNSRun
    /\ relay = NoRelay
    /\ sockd = NoSockd
    /\ udpBackLog = NoBackLog
    /\ RateLimitAtRest
    /\ ProcessorAtRest
    /\ SanityAtRest
    /\ DaemonsAtRest
    /\ ConnectionsAtRest

NextBackLog ==
    \/ BackLogClear /\ UNCHANGED exceptSvcBackLog
    \/ \E h \in Callers, r \in RelayRequests : BackLogGet(h, r) /\ UNCHANGED exceptSvcBackLog
    \/ \E h \in Callers : BackLogPut(h) /\ UNCHANGED exceptSvcBackLog
    \/ \E addr \in Dests : PipeUDPConnection(addr) /\ UNCHANGED exceptSvcBackLog
    \/ PipeUDPConnectionReturns /\ UNCHANGED exceptSvcBackLog

SpecBackLog == InitSvcBackLog /\ [][NextBackLog]_vars

exceptSvcBlackList == <<rlVars, procVars, saneVars, lifeVars, connVars, flood, udp, web, chat, dns, adblock, dnsd, dnsrun, relay, sockd, udpBackLog, poller>>

\* Initialise: daemon.blackListMutex = new(sync.Mutex); daemon.blackList = make(...)
InitSvcBlackList ==
    /\ poller = NoBot
    /\ flood = NoFlood
    /\ udp = [c \in Callers |-> NoDatagram]
    /\ web = NoWeb
    /\ chat = NoChat
    /\ dns = NoDNS
    /\ adblock = NoAdBlock
    /\ dnsd = NoDNSD
    /\ dnsrun = NoDNSRun
    /\ relay = NoRelay
    /\ sockd = NoSockd
    /\ udpBackLog = NoBackLog
    /\ blackList = NoBlackList
    /\ RateLimitAtRest
    /\ ProcessorAtRest
    /\ SanityAtRest
    /\ DaemonsAtRest
    /\ ConnectionsAtRest

NextBlackList ==
    \/ \E pgl, mvps \in FetchResults : BlackListFetch(pgl, mvps) /\ UNCHANGED exceptSvcBlackList
    \/ BlackListLock /\ UNCHANGED exceptSvcBlackList
    \/ BlackListMake /\ UNCHANGED exceptSvcBlackList
    \/ \E name \in AdNames : BlackListPut(name) /\ UNCHANGED exceptSvcBlackList
    \/ BlackListUnlock /\ UNCHANGED exceptSvcBlackList
    \/ \E c \in Callers, names \in QueriedNames : NamesLock(c, names) /\ UNCHANGED exceptSvcBlackList
    \/ \E c \in Callers : NamesAreBlackListed(c) /\ UNCHANGED exceptSvcBlackList
    \/ \E c \in Callers : NamesUnlock(c) /\ UNCHANGED exceptSvcBlackList

SpecBlackList == InitSvcBlackList /\ [][NextBlackList]_vars

exceptSvcBot == <<rlVars, procVars, saneVars, lifeVars, connVars, flood, udp, web, chat, dns, adblock, dnsd, dnsrun, relay, sockd, udpBackLog, blackList>>

\* Initialise: bot.userRateLimit = &misc.RateLimit{UnitSecs: PollIntervalSec, MaxCount: bot.RateLimit}
InitSvcBot ==
    /\ flood = NoFlood
    /\ udp = [c \in Callers |-> NoDatagram]
    /\ web = NoWeb
    /\ chat = NoChat
    /\ dns = NoDNS
    /\ adblock = NoAdBlock
    /\ dnsd = NoDNSD
    /\ dnsrun = NoDNSRun
    /\ relay = NoRelay
    /\ sockd = NoSockd
    /\ udpBackLog = NoBackLog
    /\ blackList = NoBlackList
    /\ \E max \in 1..MaxBotRateLimit :
          poller = [NoBot EXCEPT !.limit = NewRateLimit(PollIntervalSec, max),
                              !.now = StartupTime]
    /\ RateLimitAtRest
    /\ ProcessorAtRest
    /\ SanityAtRest
    /\ DaemonsAtRest
    /\ ConnectionsAtRest

NextBot ==
    \/ BotPollFails /\ UNCHANGED exceptSvcBot
    \/ BotPollEmpty /\ UNCHANGED exceptSvcBot
    \/ \E ids \in PollAnswers(poller.messageOffset) : BotProcessMessages(ids) /\ UNCHANGED exceptSvcBot
    \/ BotTick /\ UNCHANGED exceptSvcBot

SpecBot == InitSvcBot /\ [][NextBot]_vars

(***************************************************************************)
(* Properties of the rate limiter.                                         *)
(***************************************************************************)
RECURSIVE SumSeq(_)
SumSeq(s) == IF s = <<>> THEN 0 ELSE Head(s) + SumSeq(Tail(s))

CountOf(m, a) == IF a \in DOMAIN m THEN m[a] ELSE 0

\* C1: Add returns true iff the actor was admitted fewer than MaxCount times since
\* the last window reset (the reset this call performs included), so no actor is
\* admitted more than MaxCount times between two consecutive resets.
C1_AdmitIffBelowMaxCount ==
    /\ rlRet.actor # "none" => (rlRet.ret <=> rlRet.before < MaxCount)
    /\ \A a \in Actors : admitted[a] <= MaxCount

\* An Add was refused for an actor already admitted MaxCount times in the window.
C1_Witness ==
    /\ rlRet.actor # "none"
    /\ ~rlRet.ret
    /\ rlRet.before = MaxCount
    /\ admitted[rlRet.actor] = MaxCount

\* C2 as stated: in any UnitSecs consecutive seconds, aligned with a reset or not,
\* at most MaxCount Add calls of an actor are admitted.
C2_SlidingWindowAtMostMaxCount ==
    \A a \in Actors : SumSeq(admitLog[a]) <= MaxCount

\* C2 as amended: in any UnitSecs consecutive seconds of the clock Add reads, at
\* most 2 * MaxCount Add calls of an actor are admitted (such an interval meets at
\* most two windows, each admitting at most MaxCount).
C2_SlidingWindowAtMostTwiceMaxCount ==
    \A a \in Actors : SumSeq(admitLog[a]) <= 2 * MaxCount

\* UnitSecs consecutive seconds that straddle a reset and hold 2 * MaxCount
\* admissions of one actor.
C2_Witness ==
    \E a \in Actors :
        /\ SumSeq(admitLog[a]) = 2 * MaxCount
        /\ admitLog[a][1] = MaxCount
        /\ lastTimestamp = clock

\* C3: however concurrent Add calls interleave, each runs alone between Lock and
\* Unlock: no two threads are inside Add at once, no thread reads the limiter while
\* another is in the middle of a reset, every admission is counted in the window
\* it was made in, and no actor is admitted more than MaxCount times in a window.
C3_AddIsAtomic ==
    /\ \A t, u \in Threads : t # u => ~(InAdd(t) /\ InAdd(u))
    /\ \A t, u \in Threads :
           thr[u].pc \in {"resetLogged", "resetStamp"} /\ t # u
               => thr[t].pc \notin {"check", "lookup", "refuse", "store"}
    /\ \A a \in Actors : admitted[a] <= MaxCount
    /\ counterMutex = "free" => \A a \in Actors : CountOf(counter, a) = admitted[a]

\* A thread waits for the mutex, for the same actor, while another thread is in
\* the middle of a reset (counter cleared, lastTimestamp still the old one).
C3_Witness ==
    /\ thr["t1"].pc = "resetStamp"
    /\ thr["t2"].pc = "lock"
    /\ thr["t1"].actor = thr["t2"].actor
    /\ lastTimestamp > 0
    /\ lastTimestamp # thr["t1"].now

\* C4: an Add called with now - lastTimestamp >= UnitSecs clears every actor's
\* counter and the logged set and sets lastTimestamp to now before counting the
\* caller; otherwise it changes no other actor's counter, nor lastTimestamp.
C4_ResetFrame ==
    [][\A a \in Actors, l \in BOOLEAN :
         Add(a, l) =>
           IF clock - lastTimestamp >= UnitSecs
           THEN /\ lastTimestamp' = clock
                /\ DOMAIN counter' = {a}
                /\ counter'[a] = 1
                /\ logged' = {}
           ELSE /\ lastTimestamp' = lastTimestamp
                /\ \A b \in Actors \ {a} :
                     /\ b \in DOMAIN counter' <=> b \in DOMAIN counter
                     /\ CountOf(counter', b) = CountOf(counter, b)
                /\ logged \subseteq logged']_vars

\* A reset, later than the first, that cleared the counter of another actor
\* admitted in the last seconds and the logged set.
C4_Witness ==
    /\ rlRet.actor # "none"
    /\ rlRet.reset
    /\ lastTimestamp > ClockStart
    /\ DOMAIN counter = {rlRet.actor}
    /\ \E b \in Actors \ {rlRet.actor} : SumSeq(admitLog[b]) > 0
    /\ logged = {}

(***************************************************************************)
(* Properties of the command processor.                                    *)
(***************************************************************************)
IsCommandFilterCall(inv) == inv.kind = "CommandFilter"
IsFeatureCall(inv) == inv.kind = "Feature"
IsResultFilterCall(inv) == inv.kind = "ResultFilter"
CommandFilterCalls(trace) == SelectSeq(trace, IsCommandFilterCall)
FeatureCalls(trace) == SelectSeq(trace, IsFeatureCall)
ResultFilterCalls(trace) == SelectSeq(trace, IsResultFilterCall)

\* A call that has returned and did not start under lockdown.
Returned(c) == calls[c].pc = "done" /\ ~calls[c].locked
\* A returned call all of whose command filters returned no error.
PassedCommandFilters(c) ==
    /\ Returned(c)
    /\ Len(CommandFilterCalls(calls[c].trace)) = Len(CommandFilters)
    /\ \A i \in 1..Len(CommandFilters) : CommandFilterCalls(calls[c].trace)[i].err = "nil"
LintTextInstalled == \E i \in 1..Len(configured) : configured[i].kind = "LintText"

\* C5: once the emergency lockdown flag is set it is never cleared, and every
\* Process call that starts afterwards returns ErrEmergencyLockDown without
\* having invoked any command filter, feature or result filter.
C5_LockDownIsFinal ==
    /\ [](\A c \in Callers :
            calls[c].pc = "done" /\ calls[c].locked
                => /\ calls[c].ret.Error = "ErrEmergencyLockDown"
                   /\ calls[c].trace = <<>>)
    /\ [][EmergencyLockDown => EmergencyLockDown']_vars
\* A call made after the "lock" command set the flag has returned.
C5_Witness ==
    /\ EmergencyLockDown
    /\ calls["c1"].pc = "done"
    /\ calls["c1"].locked
    /\ calls["c1"].input.body = BodyEcho
    /\ calls["c1"].input.pin

\* C6: the command filters run in their declared order, each on the command the
\* previous one returned; at the first error no later command filter and no
\* feature is invoked, and the result's error is that filter's error.
C6_CommandFiltersInOrderUntilError ==
    \A c \in Callers :
        Returned(c) =>
            LET cf == CommandFilterCalls(calls[c].trace)
                n == Len(cf)
            IN /\ n <= Len(CommandFilters)
               /\ n = Len(CommandFilters) \/ (n >= 1 /\ cf[n].err # "nil")
               /\ \A i \in 1..n :
                     /\ cf[i].index = i
                     /\ cf[i].name = CommandFilters[i]
                     /\ cf[i].cmd = IF i = 1 THEN calls[c].input.cmd ELSE cf[i - 1].out
                     /\ i < n => cf[i].err = "nil"
               /\ \A i \in 1..Len(calls[c].trace) :
                     calls[c].trace[i].kind = "CommandFilter" => i <= n
               /\ (n >= 1 /\ cf[n].err # "nil")
                     => /\ FeatureCalls(calls[c].trace) = <<>>
                        /\ calls[c].ret.Error = cf[n].err
\* The first of two command filters returned an error.
C6_Witness ==
    /\ Len(CommandFilters) = 2
    /\ Returned("c1")
    /\ Len(CommandFilterCalls(calls["c1"].trace)) = 1
    /\ calls["c1"].trace[1].err = "ErrPINMismatch"
    /\ calls["c1"].ret.Error = "ErrPINMismatch"

\* No configured trigger is a prefix of another.
PrefixFree ==
    \A t, u \in LookupByTrigger : t # u => ~HasPrefix(u, t)
\* The triggers that are a prefix of the trimmed content.
MatchingTriggers(content) ==
    {t \in LookupByTrigger : HasPrefix(TrimSpace(content), t)}

\* C7: when no trigger is a prefix of another, Process executes exactly the one
\* feature whose trigger is a prefix of the trimmed content, on the content with
\* the trigger stripped and trimmed again, whatever the iteration order of the
\* trigger map; when no trigger is a prefix, no feature is executed and the
\* error is ErrBadPrefix.
C7_ExactlyTheMatchingFeature ==
    \A c \in Callers :
        (Returned(c) /\ PrefixFree /\ calls[c].at.dispatch # <<>>) =>
            LET content == TrimSpace(calls[c].at.dispatch)
                matching == MatchingTriggers(content)
                fc == FeatureCalls(calls[c].trace)
            IN IF matching = {}
               THEN fc = <<>> /\ calls[c].ret.Error = "ErrBadPrefix"
               ELSE /\ Len(fc) = 1
                    /\ matching = {fc[1].trigger}
                    /\ fc[1].cmd.Content = TrimSpace(TrimPrefix(content, fc[1].trigger))
\* A feature was executed on content a space separated from its trigger.
C7_Witness ==
    /\ PrefixFree
    /\ Returned("c1")
    /\ calls["c1"].input.body = BodyBadChoice
    /\ Len(FeatureCalls(calls["c1"].trace)) = 1
    /\ FeatureCalls(calls["c1"].trace)[1].trigger = TriggerEnvControl
    /\ FeatureCalls(calls["c1"].trace)[1].cmd.Content = <<"h", "i">>

\* ".plt P L T " in front of a command.
PLTForm(P, L, T) ==
    PrefixCommandPLT \o Sp \o Itoa(P) \o Sp \o Itoa(L) \o Sp \o Itoa(T) \o Sp
\* The post-filter content of the call is ".plt P L T <command>", P, L, T the
\* numbers its input was put together from.
IsWellFormedPLT(c) ==
    LET form == PLTForm(calls[c].input.P, calls[c].input.L, calls[c].input.T)
        content == calls[c].at.logCommandContent
    IN /\ PassedCommandFilters(c)
       /\ calls[c].input.kind = "plt"
       /\ HasPrefix(content, form)
       /\ Len(content) > Len(form)
       /\ ~IsSpace(content[Len(form) + 1])
PLTCommandOf(c) ==
    TrimPrefix(calls[c].at.logCommandContent,
               PLTForm(calls[c].input.P, calls[c].input.L, calls[c].input.T))

\* C8: for post-filter content ".plt P L T <command>" Process executes the
\* feature selected by <command> with TimeoutSec = T, applies LintText with
\* BeginPosition = P and MaxLength = L and its other settings as installed, and
\* runs every other result filter unchanged in its declared position.
C8_PLTOverridesForThisCall ==
    \A c \in Callers :
        (IsWellFormedPLT(c) /\ LintTextInstalled) =>
            LET matching == MatchingTriggers(PLTCommandOf(c))
                fc == FeatureCalls(calls[c].trace)
                rf == ResultFilterCalls(calls[c].trace)
            IN /\ IF matching = {} THEN fc = <<>>
                  ELSE /\ Len(fc) = 1
                       /\ fc[1].trigger \in matching
                       /\ fc[1].cmd.TimeoutSec = calls[c].input.T
               /\ Len(rf) = Len(configured)
               /\ \A i \in 1..Len(rf) :
                     /\ rf[i].index = i
                     /\ rf[i].filter =
                           IF configured[i].kind = "LintText"
                           THEN [configured[i] EXCEPT
                                    !.BeginPosition = calls[c].input.P,
                                    !.MaxLength = calls[c].input.L]
                           ELSE configured[i]
\* ".plt 2 13 0 .s hi" ran the feature with the timeout 0 and linted from 2 for 13.
C8_Witness ==
    /\ IsWellFormedPLT("c1")
    /\ LintTextInstalled
    /\ calls["c1"].input.P = 2
    /\ calls["c1"].input.L = 13
    /\ calls["c1"].input.T = 0
    /\ PLTCommandOf("c1") = BodyEcho
    /\ Len(FeatureCalls(calls["c1"].trace)) = 1
    /\ calls["c1"].ret.Error = "nil"
    /\ \E i \in 1..Len(calls["c1"].trace) :
          /\ calls["c1"].trace[i].kind = "ResultFilter"
          /\ calls["c1"].trace[i].filter.kind = "LintText"
          /\ calls["c1"].trace[i].filter.BeginPosition = 2

\* C9: a command that begins with .plt and is not followed by three separate
\* numbers and a non-empty command (fewer than three numbers, numbers not
\* separated, nothing after T) returns ErrBadPLT and executes no feature.
C9_MalformedPLTIsRefused ==
    \A c \in Callers :
        (/\ PassedCommandFilters(c)
         /\ LintTextInstalled
         /\ calls[c].input.kind \in {"fewer", "unseparated", "noCommand"}
         /\ HasPrefix(calls[c].at.logCommandContent, PrefixCommandPLT))
            => /\ calls[c].ret.Error = "ErrBadPLT"
               /\ FeatureCalls(calls[c].trace) = <<>>

\* C10: a PLT override never changes the installed LintText filter: after any
\* call with .plt and during any concurrent call the installed filters are as
\* configured, and a later or concurrent command without .plt is linted with
\* the configured BeginPosition and MaxLength.
C10_InstalledLintTextUntouched ==
    /\ ResultFilters = configured
    /\ \A c \in Callers :
          (/\ Returned(c)
           /\ PassedCommandFilters(c)
           /\ ~HasPrefix(calls[c].at.logCommandContent, PrefixCommandPLT))
              => LET rf == ResultFilterCalls(calls[c].trace)
                 IN /\ Len(rf) = Len(configured)
                    /\ \A i \in 1..Len(rf) : rf[i].filter = configured[i]
\* A command without .plt began while a call with a PLT override was under way;
\* both returned, and the LintText filter linted the plain one.
C10_Witness ==
    /\ LintTextInstalled
    /\ calls["c1"].pc = "done"
    /\ calls["c1"].at.hasOverrideLintText
    /\ calls["c1"].at.overrideLintText.MaxLength = 13
    /\ calls["c2"].pc = "done"
    /\ calls["c2"].overlapped
    /\ calls["c2"].input.kind = "plain"
    /\ Len(ResultFilterCalls(calls["c2"].trace)) = Len(configured)

\* The command Process records in its result at the label "result".
RecordedCommand(c) ==
    [calls[c].at.cmd EXCEPT !.Content = calls[c].at.logCommandContent]
\* The positions in the call's trace of result filters that returned an error.
FailedResultFilterCalls(c) ==
    {i \in 1..Len(calls[c].trace) :
        calls[c].trace[i].kind = "ResultFilter" /\ calls[c].trace[i].err # "nil"}

\* C11: when a result filter returns an error no later result filter runs, and
\* Process returns that filter's own error (never nil, never an earlier
\* command-filter error) with the command recorded in the aborted result.
C11_ResultFilterErrorIsReturned ==
    \A c \in Callers :
        (Returned(c) /\ FailedResultFilterCalls(c) # {}) =>
            LET i == MinOf(FailedResultFilterCalls(c))
            IN /\ i = Len(calls[c].trace)
               /\ calls[c].ret.Error = calls[c].trace[i].err
               /\ calls[c].ret.Command = RecordedCommand(c)

\* The error text, then "|" and the output when the output is not empty.
ErrorThenOutput(result) ==
    ErrorText(result.Error)
    \o (IF result.Output # <<>> THEN CombinedTextSeparator \o result.Output ELSE <<>>)
\* The LintText filter in effect for the call: the PLT override when there is
\* one, else the installed one; NoOverride when none is installed.
LintTextInEffect(c) ==
    IF calls[c].at.hasOverrideLintText THEN calls[c].at.overrideLintText
    ELSE IF LintTextInstalled
    THEN configured[MinOf({i \in 1..Len(configured) : configured[i].kind = "LintText"})]
    ELSE NoOverride
\* A text as the LintText filter in effect leaves it.
AsLinted(c, text) ==
    IF LintTextInEffect(c).kind = "LintText"
    THEN LintTextTransform(LintTextInEffect(c), [CombinedOutput |-> text]).CombinedOutput
    ELSE text

\* C12: every Process call that ends with an error (lockdown, command filter,
\* empty command, bad PLT, bad prefix, feature, result filter) returns a
\* CombinedOutput that carries the error text first, then "|" and the output
\* when the output is not empty (as the LintText filter in effect leaves it).
C12_CombinedOutputCarriesErrorText ==
    \A c \in Callers :
        (calls[c].pc = "done" /\ calls[c].ret.Error # "nil") =>
            calls[c].ret.CombinedOutput = AsLinted(c, ErrorThenOutput(calls[c].ret))

\* The content the last command filter returned, trimmed.
ContentAfterCommandFilters(c) ==
    TrimSpace(CommandFilterCalls(calls[c].trace)[Len(CommandFilters)].out.Content)

\* C13: when all command filters succeed and the content is not empty, the
\* command recorded in the returned Result has the trimmed content the command
\* filters produced: the PIN removed, the .plt parameters and the trigger still
\* there, whatever the later steps do to their copy of the command.
C13_RecordedContentIsPostFilterContent ==
    \A c \in Callers :
        (PassedCommandFilters(c) /\ ContentAfterCommandFilters(c) # <<>>)
            => calls[c].ret.Command.Content = ContentAfterCommandFilters(c)
\* "pw .plt 2 13 0 .s hi" ran the feature on "hi" and is recorded as
\* ".plt 2 13 0 .s hi".
C13_Witness ==
    /\ PassedCommandFilters("c1")
    /\ calls["c1"].input.cmd.Content = PIN \o Sp \o PLTForm(2, 13, 0) \o BodyEcho
    /\ IsWellFormedPLT("c1")
    /\ Len(FeatureCalls(calls["c1"].trace)) = 1
    /\ FeatureCalls(calls["c1"].trace)[1].cmd.Content = <<"h", "i">>
    /\ calls["c1"].ret.Command.Content = PLTForm(2, 13, 0) \o BodyEcho

\* The position of the first character of s that is not white space
\* (Len(s) + 1 when there is none).
FirstNonSpace(s) ==
    LET at == {i \in 1..Len(s) : ~IsSpace(s[i])}
    IN IF at = {} THEN Len(s) + 1 ELSE MinOf(at)
\* s, white space before it aside, starts with the PIN; what follows the PIN.
LeadsWithPIN(s) ==
    /\ FirstNonSpace(s) + Len(PIN) - 1 <= Len(s)
    /\ \A i \in 1..Len(PIN) : s[FirstNonSpace(s) + i - 1] = PIN[i]
AfterPIN(s) == SubSeq(s, FirstNonSpace(s) + Len(PIN), Len(s))
\* s, white space around it aside, is the shortcut's key.
IsShortcut(s) ==
    \E i \in 0..Len(s), j \in 0..Len(s) :
        /\ i + Len(ShortcutKey) + j = Len(s)
        /\ \A k \in 1..i : IsSpace(s[k])
        /\ \A k \in (Len(s) - j + 1)..Len(s) : IsSpace(s[k])
        /\ SubSeq(s, i + 1, i + Len(ShortcutKey)) = ShortcutKey
\* The call of PINAndShortcuts.Transform Process made first, if it made one.
CalledPINFirst(c) ==
    /\ Returned(c)
    /\ calls[c].trace # <<>>
    /\ IsCommandFilterCall(calls[c].trace[1])
    /\ calls[c].trace[1].name = "PINAndShortcuts"

ClaimedSanePIN(proc) ==
    \E i \in 1..Len(proc.CommandFilters.list) :
        /\ proc.CommandFilters.list[i].kind = "PINAndShortcuts"
        /\ \/ proc.CommandFilters.list[i].PINLength >= 7
           \/ proc.CommandFilters.list[i].Shortcuts >= 1
ClaimedSaneLintText(proc) ==
    \E i \in 1..Len(proc.ResultFilters.list) :
        /\ proc.ResultFilters.list[i].kind = "LintText"
        /\ proc.ResultFilters.list[i].MaxLength >= 35
        /\ proc.ResultFilters.list[i].MaxLength <= 4096
ClaimedSaneFeatures(proc) == proc.FeaturesAssigned /\ proc.LookupByTrigger > 0

\* The conditions as amended: the first PINAndShortcuts filter has a PIN of at
\* least 7 characters, or no PIN and a shortcut; the first LintText filter has
\* 35 <= MaxLength <= 4096.
FirstOfKind(list, kind) ==
    list[MinOf({i \in 1..Len(list) : list[i].kind = kind})]
HasKind(list, kind) == \E i \in 1..Len(list) : list[i].kind = kind
AmendedSanePIN(proc) ==
    /\ HasKind(proc.CommandFilters.list, "PINAndShortcuts")
    /\ LET pin == FirstOfKind(proc.CommandFilters.list, "PINAndShortcuts")
       IN \/ pin.PINLength >= 7
          \/ pin.PINLength = 0 /\ pin.Shortcuts >= 1
AmendedSaneLintText(proc) ==
    /\ HasKind(proc.ResultFilters.list, "LintText")
    /\ LET linter == FirstOfKind(proc.ResultFilters.list, "LintText")
       IN linter.MaxLength >= 35 /\ linter.MaxLength <= 4096
CountViolated(a, b, c) ==
    (IF a THEN 0 ELSE 1) + (IF b THEN 0 ELSE 1) + (IF c THEN 0 ELSE 1)

\* C14 as claimed: IsSaneForInternet returns an empty list iff a PINAndShortcuts
\* filter is present with len(PIN) >= 7 or with a shortcut, a LintText filter is
\* present with 35 <= MaxLength <= 4096, and the feature set is not empty.
C14_EmptyIffSaneAsClaimed ==
    errs.called =>
        (errs.list = <<>> <=> /\ ClaimedSanePIN(candidate.proc)
                              /\ ClaimedSaneLintText(candidate.proc)
                              /\ ClaimedSaneFeatures(candidate.proc))

\* C14 as amended: the list is empty iff the first PINAndShortcuts filter has a
\* PIN of at least 7 characters or no PIN and a shortcut, the first LintText
\* filter has 35 <= MaxLength <= 4096, and the feature set is assigned and not
\* empty; each of the three conditions that is violated contributes one finding.
C14_EmptyIffSaneFirstFilters ==
    errs.called =>
        LET a == AmendedSanePIN(candidate.proc)
            b == AmendedSaneLintText(candidate.proc)
            c == ClaimedSaneFeatures(candidate.proc)
        IN /\ errs.list = <<>> <=> (a /\ b /\ c)
           /\ Len(errs.list) = CountViolated(a, b, c)
           /\ \A i \in 1..Len(errs.list) : errs.list[i].prefix = "ErrBadProcessorConfig"
\* A short PIN, an overlong MaxLength and no features gave three findings.
C14_Witness ==
    /\ errs.called
    /\ Len(errs.list) = 3
    /\ candidate.proc.FeaturesAssigned
    /\ candidate.proc.CommandFilters.list = <<PINFilter(MinPINLength - 1, 1)>>
    /\ HasKind(candidate.proc.ResultFilters.list, "LintText")
    /\ FirstOfKind(candidate.proc.ResultFilters.list, "LintText").MaxLength = 4097

\* The configuration passes the sanity check.
Sane(proc) ==
    AmendedSanePIN(proc) /\ AmendedSaneLintText(proc) /\ ClaimedSaneFeatures(proc)
\* The error carries the bad-configuration text.
CarriesBadConfiguration(err) ==
    /\ err.findings # <<>>
    /\ \A i \in 1..Len(err.findings) : err.findings[i].prefix = "ErrBadProcessorConfig"
ProcessorIsMissing ==
    \/ ~candidate.present
    \/ ~candidate.proc.CommandFilters.assigned
    \/ candidate.proc.CommandFilters.list = <<>>

\* C15: a daemon facing the Internet refuses to initialise when
\* IsSaneForInternet of its processor returns findings: Initialise returns an
\* error carrying the bad-configuration text, and the chat bot makes no rate
\* limiter; the chat bot reports a missing processor, then an insane one, then
\* an empty token, then RateLimit < 1, in that precedence.
C15_InsaneProcessorIsRefused ==
    /\ bot.initialised =>
          /\ bot.err.text = "nil" <=> bot.userRateLimit = "initialised"
          /\ IF ProcessorIsMissing
             THEN bot.err.text = "command processor and its filters must be configured"
             ELSE IF ~Sane(candidate.proc)
             THEN CarriesBadConfiguration(bot.err) /\ bot.userRateLimit = "nil"
             ELSE IF bot.AuthorizationToken = ""
             THEN bot.err.text = "AuthorizationToken must not be empty"
             ELSE IF bot.RateLimit < 1
             THEN bot.err.text = "RateLimit must be greater than 0"
             ELSE bot.err = NoError
    /\ httpd.initialised =>
          (~Sane(httpd.Processor) <=> CarriesBadConfiguration(httpd.err))
\* The chat bot, given an insane processor and an empty token, reported the
\* processor; httpd, given the same processor, refused it too.
C15_Witness ==
    /\ bot.initialised
    /\ httpd.initialised
    /\ ~ProcessorIsMissing
    /\ ~Sane(candidate.proc)
    /\ bot.AuthorizationToken = ""
    /\ CarriesBadConfiguration(bot.err)
    /\ CarriesBadConfiguration(httpd.err)
    /\ httpd.Processor = candidate.proc

(***************************************************************************)
(* Properties of the daemons' StartAndBlock and Stop.                      *)
(***************************************************************************)
InLoop == loop.pc \in {"top", "io", "sleep"}
HasReturned(ret) == loop.pc = "returned" /\ loop.ret = ret
HasReturnedAnError == loop.pc = "returned" /\ loop.ret # "nil"

\* C17: Stop is idempotent for every daemon: every call of Stop, before
\* StartAndBlock, while it runs or after it has returned, returns (none waits
\* for ever), and a call after the first changes nothing. A caller at "send"
\* waits on bot.stop, from which nothing ever receives.
C17_StopAlwaysReturns ==
    /\ \A s \in Stoppers : stops[s].pc # "send"
    /\ \A s \in Stoppers : stops[s].count > 0 => stops[s].pc = "returned"

\* The parts of C18 that hold of every loop: nil is returned only when a Stop
\* call closed the listener, and then, unless the lockdown flag was seen
\* first, nothing but nil is returned; a failed Listen and a failed self-test
\* are returned as errors; ErrEmergencyLockDown is returned only under lockdown.
NilOnlyAfterStop ==
    /\ HasReturned("nil") =>
          /\ loop.closedBy = "stop"
          /\ \E s \in Stoppers : stops[s].count > 0
    /\ (loop.pc = "returned" /\ loop.closedBy = "stop" /\ ~EmergencyLockDown) =>
          loop.ret = "nil"
    /\ loop.failure \in {"listen", "selfTest"} => HasReturnedAnError
    /\ HasReturned("ErrEmergencyLockDown") => EmergencyLockDown

LockedDownIterationReturns ==
    loop.checkedFlag => HasReturned("ErrEmergencyLockDown")

\* C19 as stated: once the lockdown flag is set, every running StartAndBlock
\* loop eventually returns ErrEmergencyLockDown, and an iteration that starts
\* after the flag is set returns it before accepting, reading or polling.
C19_LockDownEndsEveryLoop ==
    /\ []LockedDownIterationReturns
    /\ (EmergencyLockDown /\ InLoop) ~> HasReturned("ErrEmergencyLockDown")

\* C19, amended: every iteration that starts after the flag is set returns
\* ErrEmergencyLockDown before accepting, reading or polling; the chat loop,
\* whose waits all time out, eventually returns it; a socket loop that waits
\* in Accept or in a read when the flag is set stays there until a client, a
\* failure or Stop ends the wait.
C19_LockDownEndsNextIteration ==
    /\ []LockedDownIterationReturns
    /\ (daemon = "chat" /\ EmergencyLockDown /\ InLoop) ~> HasReturned("ErrEmergencyLockDown")
\* The chat loop, locked down while it ran, returned ErrEmergencyLockDown.
C19_Witness ==
    /\ daemon = "chat"
    /\ loop.checkedFlag
    /\ HasReturned("ErrEmergencyLockDown")
    /\ loopIsRunning = 0

(***************************************************************************)
(* Properties of a conversation over TCP.                                  *)
(***************************************************************************)
\* The chunks written for the lines processed so far, given how far the
\* handler is with the last of them.
RepliesDue(c) ==
    CASE conns[c].pc = "write" -> 2 * (Len(conns[c].processed) - 1)
      [] conns[c].pc = "writeEnd" -> 2 * Len(conns[c].processed) - 1
      [] OTHER -> 2 * Len(conns[c].processed)

\* C20: within one connection the lines are processed one at a time in the
\* order they arrived, and the reply to line i, its CombinedOutput and then
\* "\r\n", is written before line i + 1 is processed; nothing is said of the
\* order between connections.
C20_RepliesInArrivalOrder ==
    \A c \in Callers :
        /\ Len(conns[c].processed) <= Len(conns[c].sent)
        /\ \A i \in 1..Len(conns[c].processed) : conns[c].processed[i].line = conns[c].sent[i]
        /\ Len(conns[c].wrote) = RepliesDue(c)
        /\ \A i \in 1..Len(conns[c].processed) :
              /\ 2 * i - 1 <= Len(conns[c].wrote) =>
                    conns[c].wrote[2 * i - 1] = conns[c].processed[i].result.CombinedOutput
              /\ 2 * i <= Len(conns[c].wrote) => conns[c].wrote[2 * i] = LineEnd
        /\ conns[c].pc \in {"write", "writeEnd"} => calls[c].input = conns[c].line
\* One connection got the replies to two different lines, in the order of the
\* lines, while the other connection was served between them.
C20_Witness ==
    /\ Len(conns["c1"].processed) = 2
    /\ conns["c1"].sent[1] # conns["c1"].sent[2]
    /\ Len(conns["c1"].wrote) = 4
    /\ conns["c1"].wrote[1] = TextPINMismatch
    /\ conns["c1"].wrote[3] = <<"h", "i">>
    /\ Len(conns["c2"].processed) = 1
    /\ conns["c2"].pc = "write"

(***************************************************************************)
(* Properties of the services.                                             *)
(***************************************************************************)
FloodDone == flood.sent = FloodCommands /\ ~flood.waiting

\* What holds of the client's count whatever the limit: every command is
\* answered or refused, an answer is the command's output, and a refused
\* command got nothing before the connection was closed.
FloodBookkeeping ==
    /\ flood.replies + flood.refused + (IF flood.waiting THEN 1 ELSE 0) = flood.sent
    /\ flood.replies > 0 => flood.reply = <<"h", "i">>
    /\ (flood.waiting /\ conns["c1"].pc = "closed") => conns["c1"].wrote = <<>>

\* C21 as stated: of 100 commands one IP sends, each on a fresh connection, in
\* less than one interval to a daemon whose per-IP limit is 5, between 5 and
\* 15 receive a reply; a refused command receives no reply and its connection
\* is closed.
C21_BetweenLimitAndThreeTimes ==
    /\ FloodBookkeeping
    /\ FloodDone => (flood.replies >= PerIPLimit /\ flood.replies <= 3 * PerIPLimit)

\* C21, amended: a command on a fresh connection takes two counts, one for the
\* connection and one for the line, so 2 of the commands are answered in a
\* window of the limiter and, with the one change of window the interval
\* allows, between 2 and 5 of the 100.
C21_TwoCountsPerCommand ==
    /\ FloodBookkeeping
    /\ flood.replies <= PerIPLimit
    /\ FloodDone => flood.replies >= PerIPLimit \div 2
    /\ (FloodDone /\ clock = flood.start) => flood.replies = PerIPLimit \div 2
\* All 100 commands were sent in one second, and 2 were answered.
C21_Witness ==
    /\ FloodDone
    /\ clock = flood.start
    /\ flood.replies = 2
    /\ flood.refused = FloodCommands - 2

(***************************************************************************)
(* Properties of the datagram service.                                     *)
(***************************************************************************)
\* The lines of the packet of datagram c read so far.
LinesRead(c) == Len(conns[c].sent) - Len(conns[c].unread)

\* Every datagram written for c goes to the address the packet came from.
RepliesGoToSource(c) == \A i \in 1..Len(udp[c].out) : udp[c].out[i].to = conns[c].ip

\* C22 as stated: a datagram leads to at most one Process call and at most one
\* reply, sent to its source address, and takes no count of the limiter beyond
\* the one of its admission.
C22_OneDatagramOneCommand ==
    \A c \in Callers :
        /\ Len(conns[c].processed) <= 1
        /\ Len(udp[c].out) <= 1
        /\ RepliesGoToSource(c)
        /\ udp[c].adds <= 1

\* C22, amended: a datagram takes one count of the limiter when it is received
\* and one more for each line read from it; the lines admitted are processed in
\* the order of the packet, one Process call each, and each processed line is
\* answered with two datagrams to the source address, the combined output and
\* then "\r\n"; a refused datagram has nothing read, processed or written.
C22_OneCommandPerLine ==
    \A c \in Callers :
        LET n == Len(conns[c].processed)
        IN /\ udp[c].adds = (IF conns[c].pc = "none" THEN 0 ELSE 1) + LinesRead(c)
                            - (IF conns[c].pc = "limit" THEN 1 ELSE 0)
           /\ n <= LinesRead(c)
           /\ \A i \in 1..n : conns[c].processed[i].line = conns[c].sent[i]
           /\ RepliesGoToSource(c)
           /\ Len(udp[c].out) <= 2 * n
           /\ Len(udp[c].out) >= 2 * (n - 1)
           /\ \A i \in 1..Len(udp[c].out) :
                 udp[c].out[i].bytes = IF i % 2 = 1
                                       THEN conns[c].processed[(i + 1) \div 2].result.CombinedOutput
                                       ELSE LineEnd
           /\ (udp[c].adds = 1 /\ conns[c].pc = "closed" /\ LinesRead(c) = 0 /\ conns[c].sent # <<>>)
                 => (n = 0 /\ udp[c].out = <<>>)

\* A packet of two lines from a client, both processed and answered.
C22_Witness ==
    \E c \in Callers :
        /\ Len(conns[c].sent) = 2
        /\ Len(conns[c].processed) = 2
        /\ Len(udp[c].out) = 4
        /\ udp[c].adds = 3


(***************************************************************************)
(* Properties of the HTTP daemon.                                          *)
(***************************************************************************)
\* The requests ip was let through to e's handler since e's limiter was reset.
AdmittedAt(e, ip) == CountOf(web.limits[e].counter, ip)

\* C23: a request ends in exactly one of three ways. In lockdown it is answered
\* with status 200 and the lockdown text, the handler is not called and no
\* limiter changes; otherwise, refused by the endpoint's limiter, it is answered
\* with 429 and the handler is not called; otherwise the handler is called
\* exactly once. Each endpoint has a limiter of its own, of MaxCount factor x
\* BaseRateLimit, the factor of a directory being 10: a request changes no other
\* endpoint's limiter.
C23_ExactlyOneOutcome ==
    [][web'.served # web.served =>
         LET q == web'.last
             full == /\ web.now - web.limits[q.endpoint].lastTimestamp < RateLimitIntervalSec
                     /\ AdmittedAt(q.endpoint, q.ip) >= Factor(q.endpoint, web.factor) * web.base
         IN /\ \A e \in Endpoints \ {q.endpoint} : web'.limits[e] = web.limits[e]
            /\ web'.limits[q.endpoint].MaxCount = Factor(q.endpoint, web.factor) * web.base
            /\ web'.limits[q.endpoint].UnitSecs = RateLimitIntervalSec
            /\ IF EmergencyLockDown
               THEN /\ q.outcome = "lockdown"
                    /\ q.status = StatusOK
                    /\ q.body = TextEmergencyLockDown
                    /\ q.next = 0
                    /\ web'.limits = web.limits
               ELSE IF full
                    THEN /\ q.outcome = "refused"
                         /\ q.status = StatusTooManyRequests
                         /\ q.next = 0
                    ELSE /\ q.outcome = "handled"
                         /\ q.next = 1
                         /\ q.status \in HandlerStatuses]_vars

\* All three outcomes have been seen, and the directory's limiter has let a
\* client through as often as it does in one interval.
C23_Witness ==
    /\ web.seen = {"lockdown", "refused", "handled"}
    /\ \E ip \in WebClients : AdmittedAt("/dir/", ip) = DirectoryHandlerRateLimitFactor * web.base


(***************************************************************************)
(* Properties of the chat bot.                                             *)
(***************************************************************************)
\* How many more messages of an actor the limiter lets through at time now.
Allowance(limit, now, actor) ==
    IF now - limit.lastTimestamp >= limit.UnitSecs
    THEN limit.MaxCount
    ELSE limit.MaxCount - CountOf(limit.counter, actor)

\* The updates of a batch before the i-th that have the same sender.
EarlierOf(batch, i) == {j \in 1..(i - 1) : Origin(batch[j]) = Origin(batch[i])}

\* Only updates handed to the processor are processed and answered, in the chat
\* they came from.
OnlyHandedAreProcessed ==
    /\ chat.pending \subseteq chat.handed
    /\ \A c \in Callers : chat.running[c] # 0 => chat.running[c] \in chat.handed \ chat.pending
    /\ \A k \in 1..Len(chat.replies) :
          LET r == chat.replies[k]
          IN /\ r.to = chat.batch[r.update].ChatID
             /\ chat.outcomes[r.update] \in {"rate limited", "go"}
             /\ chat.outcomes[r.update] = "rate limited" <=> r.text = TextRateLimited

\* C24: an update is handed to the processor iff its sender (From.UserName, or
\* Chat.UserName if that is empty) is admitted by the user rate limiter, its
\* timestamp is not before the start of the process, its chat is private and its
\* text is not "/start". A rate-limited update is answered with "rate limited"
\* and not processed; other rejected updates get no reply; and every update of
\* the batch, rejected later or not, takes one count of its sender.
C24_HandedIffAdmittedFreshPrivateCommand ==
    /\ []OnlyHandedAreProcessed
    /\ [][chat'.polls # chat.polls =>
         \A i \in 1..Len(chat'.batch) :
            LET u == chat'.batch[i]
                allowed == Allowance(chat.limit, chat.now, Origin(u))
                letIn == Cardinality(EarlierOf(chat'.batch, i)) < allowed
                fit == /\ letIn
                       /\ u.Timestamp >= StartupTime
                       /\ u.ChatType = ChatTypePrivate
                       /\ u.input.cmd.Content # TextStart
                answers == {k \in 1..Len(chat'.replies) : chat'.replies[k].update = i}
            IN /\ i \in chat'.handed <=> fit
               /\ chat'.handed = chat'.pending
               /\ ~letIn => /\ Cardinality(answers) = 1
                               /\ \A k \in answers :
                                     chat'.replies[k] = ReplyTo(chat'.batch, i, TextRateLimited)
               /\ letIn => answers = {}
               /\ CountOf(chat'.limit.counter, Origin(u)) =
                     MinOf({chat.limit.MaxCount,
                            chat.limit.MaxCount - allowed
                            + Cardinality({j \in 1..Len(chat'.batch) :
                                              Origin(chat'.batch[j]) = Origin(u)})})]_vars

\* A batch of two messages of one sender: the first, sent before the start, has
\* taken the sender's count, and the second, a command, is answered with "rate
\* limited".
C24_Witness ==
    /\ Len(chat.batch) = 2
    /\ Origin(chat.batch[1]) = Origin(chat.batch[2])
    /\ chat.outcomes = <<"before startup", "rate limited">>
    /\ chat.batch[2].input = FloodLine
    /\ Len(chat.replies) = 1
    /\ chat.handed = {}


(***************************************************************************)
(* Properties of the DNS packets.                                          *)
(***************************************************************************)
\* The number a sequence of bytes stands for, the first byte the highest.
RECURSIVE BigEndian(_)
BigEndian(bytes) ==
    IF bytes = <<>> THEN 0
    ELSE 256 * BigEndian(SubSeq(bytes, 1, Len(bytes) - 1)) + bytes[Len(bytes)]

\* C25: for a query Q of at least 14 bytes RespondWith0 returns len(Q) + 16
\* bytes: Q's transaction ID, the flags 0x81 0x80, Q's bytes 4..5, the answer
\* count 0x00 0x01, Q's bytes from 8 on, and last the 16 bytes of the canned
\* A record for 0.0.0.0 with TTL 1466; for nil or a shorter Q it returns the
\* empty packet. (Bytes are counted from 0 in the claim, from 1 here.)
C25_RespondWith0Layout ==
    dns.called = "RespondWith0" =>
        LET Q == dns.query
            R == dns.answer
        IN IF Len(Q) >= 14
           THEN /\ Len(R) = Len(Q) + 16
                /\ SubSeq(R, 1, 2) = SubSeq(Q, 1, 2)
                /\ BigEndian(SubSeq(R, 3, 4)) = 33152
                /\ SubSeq(R, 5, 6) = SubSeq(Q, 5, 6)
                /\ SubSeq(R, 7, 8) = <<0, 1>>
                /\ SubSeq(R, 9, Len(Q)) = SubSeq(Q, 9, Len(Q))
                /\ SubSeq(R, Len(Q) + 1, Len(Q) + 16) = BlackHoleAnswer
                /\ SubSeq(R, Len(Q) + 3, Len(Q) + 6) = TypeAClassIN
                /\ BigEndian(SubSeq(R, Len(Q) + 7, Len(Q) + 10)) = 1466
                /\ SubSeq(R, Len(Q) + 13, Len(Q) + 16) = <<0, 0, 0, 0>>
           ELSE R = <<>>

\* A query that came with an answer count of its own has been answered.
C25_Witness ==
    /\ dns.called = "RespondWith0"
    /\ Len(dns.query) > MinNameQuerySize
    /\ SubSeq(dns.query, 7, 8) = <<0, 3>>
    /\ Len(dns.answer) = Len(dns.query) + Len(BlackHoleAnswer)

\* The name made of the labels from the k-th on, with full stops between them.
RECURSIVE NameFrom(_, _)
NameFrom(labels, k) ==
    IF k > Len(labels) THEN <<>>
    ELSE IF k = Len(labels) THEN BytesOf(labels[k])
    ELSE BytesOf(labels[k]) \o <<FullStop>> \o NameFrom(labels, k + 1)

\* C26: for a type-A class-IN query ExtractDomainName returns the full name and
\* then the name with leading labels removed, one at a time, down to the name
\* of two labels, and nothing else; it returns the empty list for packets of
\* fewer than 14 bytes and for packets without 00 01 00 01 after byte 13.
C26_NamesDownToTwoLabels ==
    dns.called = "ExtractDomainName" =>
        IF dns.labels = <<>> \/ dns.typeClass # TypeAClassIN
        THEN dns.names = <<>>
        ELSE Len(dns.labels) >= 2 =>
                dns.names = [k \in 1..(Len(dns.labels) - 1) |-> NameFrom(dns.labels, k)]


(***************************************************************************)
(* Properties of the blacklist.                                            *)
(***************************************************************************)
\* What the fetches of the last refresh that succeeded returned.
FetchedNames ==
    (IF adblock.pgl.err = "nil" THEN adblock.pgl.entries ELSE {})
    \cup (IF adblock.mvps.err = "nil" THEN adblock.mvps.entries ELSE {})

\* C27: a refresh replaces the blacklist only with entries of successful
\* fetches: after UpdatedAdBlockLists the blacklist is the union of the sources
\* fetched; a refresh in which a fetch fails does not discard the previous
\* blacklist, and when both fail the previous blacklist stays as it was.
C27_FailedFetchKeepsPrevious ==
    adblock.refreshed =>
        LET failed == {adblock.pgl.err, adblock.mvps.err} \ {"nil"}
        IN /\ failed = {} => adblock.blackList = FetchedNames
           /\ failed # {} => /\ adblock.previous \subseteq adblock.blackList
                             /\ adblock.blackList = adblock.previous \cup FetchedNames


(***************************************************************************)
(* Properties of the DNS daemon's Initialise.                              *)
(***************************************************************************)
\* A protocol is served and has no forwarder.
ServedWithoutForwarder(cfg) ==
    \/ cfg.UDPPort > 0 /\ Len(cfg.UDPForwarder) = 0
    \/ cfg.TCPPort > 0 /\ Len(cfg.TCPForwarder) = 0

\* C28: Initialise returns an error, and neither panics nor returns nil, when a
\* protocol that is served has no forwarder: UDPPort > 0 without UDP forwarders,
\* or TCPPort > 0 without TCP forwarders, the other list being empty or not.
C28_ErrorWithoutForwarderOfServedProtocol ==
    (dnsd.called /\ ServedWithoutForwarder(dnsd.cfg)) => dnsd.got.ret \notin {"nil", "panic"}


(***************************************************************************)
(* Properties of the DNS daemon's StartAndBlock.                           *)
(***************************************************************************)
\* C29: with both UDP and TCP served, once StartAndBlock has returned a
\* listener's error all listeners are closed, whatever the order of the steps,
\* the other listener registered or not when the first failed; the error
\* returned is a listener's; and nil is returned only after both listeners have
\* ended without an error.
C29_ErrorClosesAllListeners ==
    (dnsrun.served = Protocols /\ dnsrun.pc = "returned") =>
        IF dnsrun.ret = "nil"
        THEN \A p \in Protocols : dnsrun.listener[p].pc = "done" /\ dnsrun.listener[p].err = "nil"
        ELSE /\ \E p \in Protocols : dnsrun.listener[p].err = dnsrun.ret
             /\ \A p \in Protocols : ~dnsrun.listener[p].open


(***************************************************************************)
(* Properties of the encrypted UDP relay.                                  *)
(***************************************************************************)
\* The relay tasks of the client that are in PipeUDPConnection.
RunningPipes == {s \in DOMAIN relay.pipes : relay.pipes[s] = "run"}

\* C30: at every moment and under every interleaving the client address has at
\* most one open upstream socket and at most one running relay task; first
\* packets handled at the same time make one socket and start one relay task.
C30_OneSocketOneRelayPerClient ==
    /\ Cardinality(relay.open) <= 1
    /\ Cardinality(RunningPipes) <= 1


(***************************************************************************)
(* Properties of the relay's handling of one datagram.                     *)
(***************************************************************************)
\* A payload of n bytes whose address header is malformed: an unknown type,
\* fewer bytes than the header of its type needs, or a NUL in the name.
HeaderLengthOf(payload) ==
    CASE payload[1] % (AddressTypeMask + 1) = AddressTypeIPv4 -> 7
      [] payload[1] % (AddressTypeMask + 1) = AddressTypeIPv6 -> 19
      [] payload[1] % (AddressTypeMask + 1) = AddressTypeDM ->
            IF Len(payload) < 2 THEN 4 ELSE 4 + payload[2]
      [] OTHER -> 0
MalformedHeader(payload) ==
    \/ payload = <<>>
    \/ payload[1] % (AddressTypeMask + 1) \notin {AddressTypeIPv4, AddressTypeIPv6, AddressTypeDM}
    \/ Len(payload) < HeaderLengthOf(payload)
    \/ /\ payload[1] % (AddressTypeMask + 1) = AddressTypeDM
       /\ \E i \in 3..(2 + payload[2]) : payload[i] = 0

\* C31: a payload with a malformed address header gets one random reply;
\* nothing is sent upstream, no NAT or backlog entry is made, and the handler
\* does not fail.
C31_MalformedHeaderGetsDecoy ==
    sockd.pc = "done" /\ MalformedHeader(sockd.packet)
        => /\ sockd.decoys = 1
           /\ ~sockd.sent
           /\ ~sockd.backlog
           /\ ~sockd.nat
           /\ ~sockd.panic

\* C32: a datagram shorter than the IV gets a random reply and is dropped.
C32_ShortDatagramGetsDecoy ==
    sockd.pc = "dropped" /\ Len(sockd.datagram) < IVLength
        => /\ sockd.decoys = 1
           /\ sockd.packet = <<>>
           /\ ~sockd.sent
           /\ ~sockd.backlog
           /\ ~sockd.nat

(***************************************************************************)
(* Properties of the relay's backlog.                                      *)
(***************************************************************************)
\* C33, as stated: only the first reply of a relay task carries a header of
\* the backlog; every later one carries the header made from its source.
C33_OnlyFirstReplyFromBackLog ==
    \A i \in 2..Len(udpBackLog.replies) :
        udpBackLog.replies[i].header = MakeUDPRequestHeader(udpBackLog.replies[i].src)

\* C33, amended: every reply, the first and the later ones alike, carries the
\* backlog's entry for its source if there is one when the reply is written,
\* and the header made from its source if there is none.
C33_ReplyFromBackLogWhileEntryExists ==
    [][Len(udpBackLog'.replies) > Len(udpBackLog.replies)
        => LET r == udpBackLog'.replies[Len(udpBackLog'.replies)]
           IN r.header = IF udpBackLog.backlog[r.src] # <<>>
                         THEN udpBackLog.backlog[r.src]
                         ELSE MakeUDPRequestHeader(r.src)]_vars

\* A second reply carries the header of the backlog, and a first one does not.
C33_Witness ==
    /\ Len(udpBackLog.replies) = 2
    /\ udpBackLog.replies[1].header = MakeUDPRequestHeader(udpBackLog.replies[1].src)
    /\ udpBackLog.replies[2].header = HeaderDM
    /\ udpBackLog.replies[2].src = Dest1

\* C37: between two clears the entry of a destination is the header of the
\* first request to it and is not overwritten; a clear removes every entry.
C37_BackLogKeepsFirstRequest ==
    [][\A d \in Dests :
        udpBackLog.backlog[d] # <<>> /\ udpBackLog'.backlog[d] # udpBackLog.backlog[d]
            => \A e \in Dests : udpBackLog'.backlog[e] = <<>>]_vars

\* A relay task's last statement removes the table's entry.
PipeRemovesEntry(s) ==
    /\ s \in DOMAIN relay.pipes
    /\ s \notin DOMAIN relay'.pipes
    /\ relay'.table # relay.table

\* C36: a relay task that ends removes the entry of its own socket only, and
\* no socket stays open without its entry in the table.
C36_RelayTaskRemovesOwnEntryOnly ==
    /\ [](\A s \in relay.open : relay.table = s)
    /\ [][\A s \in 1..MaxSockets : PipeRemovesEntry(s) => relay.table = s]_vars

(***************************************************************************)
(* The log lines of the rate limiter.                                      *)
(***************************************************************************)
\* A step of Add that refuses actor a.
AddRefuses(a) == clock' = clock /\ rlRet'.actor = a /\ ~rlRet'.ret /\ ~rlRet'.reset

\* C38: in one window a refused actor is logged at most once. The first
\* refusal with logIfLimitHit logs and marks the actor, later ones do not
\* log, a refusal without logIfLimitHit neither logs nor marks, and a reset
\* clears the marks.
C38_LoggedOncePerWindow ==
    /\ [](\A a \in Actors : warnings[a] <= 1)
    /\ [][\A a \in Actors :
            /\ AddRefuses(a) /\ rlRet'.log /\ a \notin logged
                => warnings'[a] = warnings[a] + 1 /\ logged' = logged \cup {a}
            /\ AddRefuses(a) /\ rlRet'.log /\ a \in logged
                => warnings' = warnings /\ logged' = logged
            /\ AddRefuses(a) /\ ~rlRet'.log
                => warnings' = warnings /\ logged' = logged
            /\ clock' = clock /\ lastTimestamp' # lastTimestamp
                => logged' = {} /\ warnings' = ZeroPerActor]_vars

\* An actor logged in this window has been refused again, without a line.
C38_Witness ==
    \E a \in Actors :
        /\ warnings[a] = 1
        /\ a \in logged
        /\ rlRet.actor = a
        /\ ~rlRet.ret
        /\ ~rlRet.log

(***************************************************************************)
(* The empty command.                                                      *)
(***************************************************************************)
\* The content of the call's command after the command filters, all of which
\* returned no error, is empty once trimmed.
EmptyAfterCommandFilters(c) ==
    LET cf == RunCommandFilters(CommandFilters, 1, calls[c].input.cmd, <<>>)
    IN cf.err = "nil" /\ TrimSpace(cf.cmd.Content) = <<>>

\* C39: a command that is empty after the command filters and trimming ends
\* with ErrEmptyCommand; no feature is executed, and every result filter
\* runs, the first of them on the result that carries the error.
C39_EmptyCommandIsRefused ==
    \A c \in Callers :
        Returned(c) /\ EmptyAfterCommandFilters(c)
            => /\ calls[c].ret.Error = "ErrEmptyCommand"
               /\ calls[c].at.ret.Error = "ErrEmptyCommand"
               /\ FeatureCalls(calls[c].trace) = <<>>
               /\ Len(ResultFilterCalls(calls[c].trace)) = Len(ResultFilters)
               /\ \A i \in 1..Len(ResultFilters) :
                     /\ ResultFilterCalls(calls[c].trace)[i].index = i
                     /\ ResultFilterCalls(calls[c].trace)[i].err = "nil"

\* The PIN followed by a space was given and refused, and the result filters ran.
C39_Witness ==
    /\ Returned("c1")
    /\ calls["c1"].input.cmd.Content = PIN \o Sp
    /\ calls["c1"].ret.Error = "ErrEmptyCommand"
    /\ FeatureCalls(calls["c1"].trace) = <<>>
    /\ Len(ResultFilterCalls(calls["c1"].trace)) = Len(ResultFilters)

C40_OffsetPastEveryUpdate ==
    /\ [](\A i \in 1..Len(poller.polled) : poller.polled[i] < poller.messageOffset)
    /\ [](\A id \in 0..MaxUpdateID : poller.handed[id] <= 1)
    /\ [][poller'.messageOffset >= poller.messageOffset]_vars

\* A batch whose largest identifier came first, with an update that was not
\* given to the processor, has been handled, and a later poll as well.
C40_Witness ==
    /\ Len(poller.polled) = 2
    /\ poller.polled[1] > poller.polled[2]
    /\ poller.messageOffset = poller.polled[1] + 1
    /\ poller.handed[poller.polled[1]] = 0
    /\ \E id \in 0..MaxUpdateID : id < poller.polled[2] /\ poller.handed[id] = 1

(***************************************************************************)
(* Stop while StartAndBlock runs.                                          *)
(***************************************************************************)
\* Stop has acted while the loop of StartAndBlock ran: it closed the listener
\* the loop serves, or it took the running flag of the chat bot's loop.
StoppedInLoop ==
    /\ InLoop
    /\ \/ loop.closedBy = "stop"
       \/ \E s \in Stoppers : stops[s].pc = "send"

\* C34: when Stop is called while StartAndBlock runs, StartAndBlock
\* eventually returns, and every call of Stop eventually returns.
C34_StopEndsStartAndBlock ==
    /\ StoppedInLoop ~> loop.pc = "returned"
    /\ \A s \in Stoppers : (stops[s].pc = "send") ~> (stops[s].pc = "returned")

================================================================
